---- MODULE Spec2Model ----
(***************************************************************************)
(* Model of the DIM wishlist builder: matching curated weapon / perk names *)
(* against the item catalog (match_items.py, bungie_api.py) and expanding  *)
(* matched weapons into wishlist lines (wishlist_generator.py, main.py).   *)
(*                                                                         *)
(* Python strings are modelled as sequences of character codes (ASCII),    *)
(* so that lower-casing, substring search, str.split and the lexicographic *)
(* order used by sorted() are computed character by character.  Optional   *)
(* text (Optional[str]) is a sequence of lines, None being <<>>; an        *)
(* Optional[Dict] is <<>> (None) or <<dict>>.                              *)
(***************************************************************************)
EXTENDS Integers, Sequences, FiniteSets, TLC

VARIABLES
    pc,               \* position of the run: "match", "load", "download",
                      \* "generate", "done"
    entries,          \* raw entries returned by parse_all_tabs, flattened
    idx,              \* index of the next entry process_weapons handles
    configs,          \* List[TierConfig] given to WishlistGenerator
    manifest,         \* BungieAPI.cache['manifest']: its items, in dict order
    weapon_matches,   \* ItemMatcher.weapon_matches: raw name -> candidates
    perk_matches,     \* ItemMatcher.perk_matches: raw name -> candidates
    missing_weapons,  \* ItemMatcher.missing_weapons
    missing_perks,    \* ItemMatcher.missing_perks
    weapons,          \* ItemMatcher.weapons, flattened in insertion order
    result,           \* value returned by the last match_weapon call
    log,              \* catalog searches and cache stores, in program order
    sorted_weapons,   \* all_matched_weapons after the sort of generate_wishlist
    rolls,            \* entry returned by _format_weapon_rolls, per sorted weapon
    wishlist,         \* lines of the text returned by generate_dim_wishlist
    arg,              \* argument of a function that is called on its own
    ret,              \* value that call returned
    values,           \* rows of a sheet tab that parse_tab reads
    tasks,            \* coroutines of the matcher and the catalog client
                      \* that run interleaved
    call,             \* the match_weapon call that awaits the manifest
    id_cache          \* BungieAPI.cache['weapons'] and cache['perks']:
                      \* name -> hash

vars == <<pc, entries, idx, configs, manifest, weapon_matches,
          perk_matches, missing_weapons, missing_perks, weapons, result,
          log, sorted_weapons, rolls, wishlist, arg, ret, values, tasks,
          call, id_cache>>

----------------------------------------------------------------------------
(* Bounds of the model *)

MaxCol == 2          \* longest perk column of a generated weapon
MaxWeapons == 2      \* longest list handed to generate_dim_wishlist
MaxRot == 1          \* iteration orders of a Python set that are explored
MaxEntries == 2      \* longest list of raw entries of a run

----------------------------------------------------------------------------
(* Strings *)

None == <<>>

Range(s) == {s[i] : i \in 1..Len(s)}

\* a < b decided at the first position from i on where the two differ
RECURSIVE LexLessFrom(_, _, _)
LexLessFrom(a, b, i) ==
    IF i > Len(b) THEN FALSE
    ELSE IF i > Len(a) THEN TRUE
    ELSE IF a[i] # b[i] THEN a[i] < b[i]
    ELSE LexLessFrom(a, b, i + 1)

\* str < str of Python: comparison by code point, a proper prefix is smaller
LexLess(a, b) == LexLessFrom(a, b, 1)

\* str(int) for a non-negative integer
RECURSIVE IntToStr(_)
IntToStr(n) == IF n < 10 THEN <<48 + n>>
               ELSE IntToStr(n \div 10) \o <<48 + (n % 10)>>

\* sorted(xs) on strings: insertion sort, ascending
RECURSIVE InsertAsc(_, _)
InsertAsc(x, s) ==
    IF s = <<>> THEN <<x>>
    ELSE IF LexLess(x, Head(s)) THEN <<x>> \o s
    ELSE <<Head(s)>> \o InsertAsc(x, Tail(s))

\* variant: the set is emitted in iteration order
sorted_unsorted(xs) == xs

RECURSIVE sorted(_)
sorted(xs) == IF xs = <<>> THEN <<>>
              ELSE InsertAsc(xs[Len(xs)], sorted(SubSeq(xs, 1, Len(xs) - 1)))

\* set.add on a set kept as the sequence of its distinct elements
SetAdd(s, x) == IF x \in Range(s) THEN s ELSE Append(s, x)

Rotate(s, k) ==
    IF s = <<>> THEN s
    ELSE [i \in 1..Len(s) |-> s[((i - 1 + k) % Len(s)) + 1]]

\* One order in which Python may iterate over the set of combinations of a
\* weapon, which is sorted before it is used: the orders explored are the
\* rotations of the distinct elements and their reversals.
IterOrder(s, k, rev) ==
    IF rev THEN [i \in 1..Len(s) |-> Rotate(s, k)[Len(s) + 1 - i]]
    ELSE Rotate(s, k)

IterOrders == [k : 0..MaxRot, rev : BOOLEAN]

\* list(set(xs)) for a set kept as the sequence s of its distinct elements:
\* Python may give any order, p is a permutation of 1..Len(s)
list_set(s, p) == [i \in 1..Len(s) |-> s[p[i]]]

----------------------------------------------------------------------------
(* config_manager.py *)

BOTH_COLUMNS == 1
ANY_COLUMN == 2
ANY_PERKS == 3
PerkOption == {BOTH_COLUMNS, ANY_COLUMN, ANY_PERKS}

\* Optional[PerkOption]: 0 stands for None
\* variant: falls back to the first configured option for an unknown tier
should_include_weapon_fallback(tier, cfgs) ==
    IF cfgs = <<>> THEN 0
    ELSE IF \E i \in 1..Len(cfgs) : cfgs[i].tier = tier
         THEN cfgs[CHOOSE i \in 1..Len(cfgs) :
                     cfgs[i].tier = tier
                     /\ \A j \in 1..(i - 1) : cfgs[j].tier # tier].perk_option
    ELSE Head(cfgs).perk_option

RECURSIVE should_include_weapon(_, _)
should_include_weapon(tier, cfgs) ==
    IF cfgs = <<>> THEN 0
    ELSE IF Head(cfgs).tier = tier THEN Head(cfgs).perk_option
    ELSE should_include_weapon(tier, Tail(cfgs))

----------------------------------------------------------------------------
(* wishlist_generator.py *)

S_dimwishlist_item == <<100,105,109,119,105,115,104,108,105,115,116,58,
                        105,116,101,109,61>>            \* "dimwishlist:item="
S_perks == <<38,112,101,114,107,115,61>>                \* "&perks="
S_tier == <<32,45,32,84,105,101,114,58,32>>             \* " - Tier: "

HeaderLine(weapon) == weapon.name \o S_tier \o weapon.tier
BareLine(weapon) == S_dimwishlist_item \o IntToStr(weapon.hash)
SingleLine(weapon, p) == BareLine(weapon) \o S_perks \o IntToStr(p.hash)
PairLine(weapon, p1, p2) ==
    SingleLine(weapon, p1) \o <<44>> \o IntToStr(p2.hash)

RECURSIVE AddSingles(_, _, _)
AddSingles(comb, weapon, col) ==
    IF col = <<>> THEN comb
    ELSE AddSingles(SetAdd(comb, SingleLine(weapon, Head(col))), weapon, Tail(col))

\* itertools.product(column1, column2): column1 is the outer loop
RECURSIVE AddPairsOf(_, _, _, _)
AddPairsOf(comb, weapon, p1, col2) ==
    IF col2 = <<>> THEN comb
    ELSE AddPairsOf(SetAdd(comb, PairLine(weapon, p1, Head(col2))),
                    weapon, p1, Tail(col2))

RECURSIVE AddPairs(_, _, _, _)
AddPairs(comb, weapon, col1, col2) ==
    IF col1 = <<>> THEN comb
    ELSE AddPairs(AddPairsOf(comb, weapon, Head(col1), col2),
                  weapon, Tail(col1), col2)

\* variant: the single-perk lines of column 2 are forgotten
all_combinations_no_column2(weapon, perk_option) ==
    LET singles == IF perk_option \in {ANY_COLUMN, ANY_PERKS}
                   THEN AddSingles(<<>>, weapon, weapon.perks_column1)
                   ELSE <<>>
    IN  IF weapon.perks_column1 # <<>> /\ weapon.perks_column2 # <<>>
        THEN AddPairs(singles, weapon, weapon.perks_column1, weapon.perks_column2)
        ELSE singles

\* variant: the single-perk lines are added under every option
all_combinations_singles_always(weapon, perk_option) ==
    LET singles == AddSingles(AddSingles(<<>>, weapon, weapon.perks_column1),
                              weapon, weapon.perks_column2)
    IN  IF weapon.perks_column1 # <<>> /\ weapon.perks_column2 # <<>>
        THEN AddPairs(singles, weapon, weapon.perks_column1, weapon.perks_column2)
        ELSE singles

\* all_combinations of _format_weapon_rolls as the distinct lines added
all_combinations(weapon, perk_option) ==
    LET singles == IF perk_option \in {ANY_COLUMN, ANY_PERKS}
                   THEN AddSingles(AddSingles(<<>>, weapon, weapon.perks_column1),
                                   weapon, weapon.perks_column2)
                   ELSE <<>>
    IN  IF weapon.perks_column1 # <<>> /\ weapon.perks_column2 # <<>>
        THEN AddPairs(singles, weapon, weapon.perks_column1, weapon.perks_column2)
        ELSE singles

\* The lines of the returned text (each ends with a newline), or None.
\* ord is the order in which sorted() iterates over the set.
_format_weapon_rolls(weapon, cfgs, ord) ==
    LET perk_option == should_include_weapon(weapon.tier, cfgs)
        output == IF perk_option = ANY_PERKS
                  THEN <<HeaderLine(weapon), BareLine(weapon)>>
                  ELSE <<HeaderLine(weapon)>>
        comb == all_combinations(weapon, perk_option)
    IN  IF perk_option = 0 THEN None
        ELSE IF comb # <<>>
             THEN output \o sorted(IterOrder(comb, ord.k, ord.rev))
        ELSE IF perk_option = ANY_PERKS THEN output
        ELSE None

\* the WeaponRoll built from a matched weapon dict
process_matched_weapon(weapon_data) ==
    LET perk(p) == [name |-> p.name, hash |-> p.hash, description |-> p.description]
    IN  [name |-> weapon_data.name, hash |-> weapon_data.hash,
         type |-> weapon_data.type, tier |-> weapon_data.tier,
         perks_column1 |-> [i \in 1..Len(weapon_data.perks_column1) |->
                               perk(weapon_data.perks_column1[i])],
         perks_column2 |-> [i \in 1..Len(weapon_data.perks_column2) |->
                               perk(weapon_data.perks_column2[i])]]

\* variant: "".join(output), no line between two entries
RECURSIVE JoinEntries_concat(_)
JoinEntries_concat(es) ==
    IF es = <<>> THEN <<>> ELSE Head(es) \o JoinEntries_concat(Tail(es))

\* "\n".join(output): an entry ends with a newline, so the join puts one
\* empty line between two entries
RECURSIVE JoinEntries(_)
JoinEntries(es) ==
    IF es = <<>> THEN <<>>
    ELSE IF Len(es) = 1 THEN Head(es)
    ELSE Head(es) \o <<<<>>>> \o JoinEntries(Tail(es))

\* variant: the loop stops at the first weapon without an entry
append_entry_break(entry, rest) ==
    IF entry # None THEN <<entry>> \o rest ELSE <<>>

\* if entry: output.append(entry); rest is what the later weapons append
append_entry(entry, rest) ==
    IF entry # None THEN <<entry>> \o rest ELSE rest

\* the entries appended to output by generate_dim_wishlist
RECURSIVE wishlist_entries(_, _, _)
wishlist_entries(matched_weapons, cfgs, ord) ==
    IF matched_weapons = <<>> THEN <<>>
    ELSE append_entry(
             _format_weapon_rolls(
                 process_matched_weapon(Head(matched_weapons)), cfgs, ord),
             wishlist_entries(Tail(matched_weapons), cfgs, ord))

generate_dim_wishlist(matched_weapons, cfgs, ord) ==
    JoinEntries(wishlist_entries(matched_weapons, cfgs, ord))

----------------------------------------------------------------------------
(* String operations of Python used by the matcher *)

\* str.lower on one character
Lower(c) == IF c >= 65 /\ c <= 90 THEN c + 32 ELSE c

lower(s) == [i \in 1..Len(s) |-> Lower(s[i])]

\* needle in hay
Contains(hay, needle) ==
    \E i \in 0..(Len(hay) - Len(needle)) :
        SubSeq(hay, i + 1, i + Len(needle)) = needle

\* s.replace(c, ' ') for the three characters normalize_name replaces
Replace(s, c) == [i \in 1..Len(s) |-> IF s[i] = c THEN 32 ELSE s[i]]

\* the characters str.split() treats as whitespace (ASCII range)
IsSpace(c) == c \in {9, 10, 11, 12, 13, 28, 29, 30, 31, 32}

\* ' '.join(s.split()): cur is the word being read, out the text so far
RECURSIVE JoinSplit(_, _, _)
JoinSplit(s, cur, out) ==
    LET flush == IF cur = <<>> THEN out
                 ELSE IF out = <<>> THEN cur
                 ELSE out \o <<32>> \o cur
    IN  IF s = <<>> THEN flush
        ELSE IF IsSpace(Head(s)) THEN JoinSplit(Tail(s), <<>>, flush)
        ELSE JoinSplit(Tail(s), Append(cur, Head(s)), out)

\* s.split(pattern)[0] for a non-empty pattern
SplitFirst(s, pattern) ==
    IF Contains(s, pattern)
    THEN LET i == CHOOSE k \in 0..(Len(s) - Len(pattern)) :
                     /\ SubSeq(s, k + 1, k + Len(pattern)) = pattern
                     /\ \A j \in 0..(k - 1) :
                            SubSeq(s, j + 1, j + Len(pattern)) # pattern
         IN  SubSeq(s, 1, i)
    ELSE s

----------------------------------------------------------------------------
(* match_items.py: names *)

\* variant: '.' is not replaced
normalize_name_keep_dot(name) ==
    JoinSplit(Replace(Replace(lower(name), 95), 45), <<>>, <<>>)

\* variant: the whitespace is collapsed before the characters are replaced
normalize_name_replace_last(name) ==
    Replace(Replace(Replace(JoinSplit(lower(name), <<>>, <<>>), 95), 45), 46)

normalize_name(name) ==
    JoinSplit(Replace(Replace(Replace(lower(name), 95), 45), 46), <<>>, <<>>)

version_patterns == <<
    <<95,118>>,                          \* '_v'
    <<32,118>>,                          \* ' v'
    <<118,101,114,115,105,111,110,32>>,  \* 'version '
    <<95,118,101,114>>,                  \* '_ver'
    <<32,118,101,114>>,                  \* ' ver'
    <<46,48,46>>,                        \* '.0.'
    <<46,49,46>>,                        \* '.1.'
    <<46,50,46>>,                        \* '.2.'
    <<46,51,46>>,                        \* '.3.'
    <<46,52,46>>,                        \* '.4.'
    <<46,53,46>>                         \* '.5.'
>>

\* base_name of get_search_variants: the first pattern of the list that
\* occurs in name.lower() splits name itself
RECURSIVE base_name(_, _)
base_name(name, patterns) ==
    IF patterns = <<>> THEN name
    ELSE IF Contains(lower(name), Head(patterns))
         THEN SplitFirst(name, Head(patterns))
    ELSE base_name(name, Tail(patterns))

\* variant: base_name is not appended
variants_of_no_base(name, base) ==
    <<name>>
    \o <<normalize_name(name)>>
    \o (IF base # name THEN <<normalize_name(base)>> ELSE <<>>)

\* the list variants, given base_name
variants_of(name, base) ==
    <<name>>
    \o (IF base # name THEN <<base>> ELSE <<>>)
    \o <<normalize_name(name)>>
    \o (IF base # name THEN <<normalize_name(base)>> ELSE <<>>)

\* the list variants before list(set(variants))
variants_list(name) == variants_of(name, base_name(name, version_patterns))

get_search_variants(name) == Range(variants_list(name))

RECURSIVE Distinct(_)
Distinct(s) == IF s = <<>> THEN <<>>
               ELSE SetAdd(Distinct(SubSeq(s, 1, Len(s) - 1)), s[Len(s)])

\* (exact_match, similarity); the similarity min_len / max_len is kept as
\* the pair of its numerator and denominator
min(a, b) == IF a < b THEN a ELSE b
max(a, b) == IF a < b THEN b ELSE a

\* variant: the test for equal normalized forms is skipped
compare_normalized_no_equal(norm1, norm2) ==
    IF Contains(norm2, norm1) \/ Contains(norm1, norm2)
    THEN [exact |-> FALSE, num |-> min(Len(norm1), Len(norm2)),
                           den |-> max(Len(norm1), Len(norm2))]
    ELSE [exact |-> FALSE, num |-> 0, den |-> 1]

\* compare_names after the two calls of normalize_name
compare_normalized(norm1, norm2) ==
    IF norm1 = norm2 THEN [exact |-> TRUE, num |-> 1, den |-> 1]
    ELSE IF Contains(norm2, norm1) \/ Contains(norm1, norm2)
         THEN [exact |-> FALSE, num |-> min(Len(norm1), Len(norm2)),
                                den |-> max(Len(norm1), Len(norm2))]
    ELSE [exact |-> FALSE, num |-> 0, den |-> 1]

compare_names(name1, name2) ==
    compare_normalized(normalize_name(name1), normalize_name(name2))

----------------------------------------------------------------------------
(* bungie_api.py *)

\* An item of cache['manifest']: hash is the key of the entry; display tells
\* whether the item has 'displayProperties', typed whether it has the key
\* 'itemTypeDisplayName'; itemSubType is -1 when absent.
Item(h, n, it, st, tdn, d) ==
    [hash |-> h, display |-> TRUE, name |-> n, itemType |-> it,
     itemSubType |-> st, typed |-> TRUE, itemTypeDisplayName |-> tdn,
     description |-> d]

\* item.get('itemTypeDisplayName', default)
get_itemTypeDisplayName(item, default) ==
    IF item.typed THEN item.itemTypeDisplayName ELSE default


N_HungJury == <<72,117,110,103,32,74,117,114,121>>              \* "Hung Jury"
N_HungJuryX == <<72,117,110,103,32,74,117,114,121,32,88>>       \* "Hung Jury X"
N_HungJurys == <<72,117,110,103,32,74,117,114,121,115>>         \* "Hung Jurys"
N_Hung_Jury == <<72,117,110,103,45,74,117,114,121>>             \* "Hung-Jury"
N_HungJury_v2 == <<72,117,110,103,32,74,117,114,121,95,118,50>> \* "Hung Jury_v2"
N_Trustee == <<84,114,117,115,116,101,101>>                     \* "Trustee"
N_Zzz == <<90,122,122>>                                         \* "Zzz"
N_Outlaw == <<79,117,116,108,97,119>>                           \* "Outlaw"
N_Demolitionist == <<68,101,109,111,108,105,116,105,111,110,105,115,116>>
N_Rampage == <<82,97,109,112,97,103,101>>                       \* "Rampage"
N_Rapid_Hit == <<82,97,112,105,100,45,72,105,116>>              \* "Rapid-Hit"
N_RapidHit == <<82,97,112,105,100,32,72,105,116>>               \* "Rapid Hit"
T_ScoutRifle == <<83,99,111,117,116,32,82,105,102,108,101>>     \* "Scout Rifle"
T_CombatBow == <<67,111,109,98,97,116,32,66,111,119>>           \* "Combat Bow"
T_Trait == <<84,114,97,105,116>>                                \* "Trait"
Tier_S == <<83>>
Tier_A == <<65>>
Tier_B == <<66>>

\* The item definitions of the manifest, in the iteration order of the dict.
Manifest == <<
    Item(7,   N_HungJuryX,      3,  9,  T_ScoutRifle, <<>>),
    Item(40,  N_HungJury,       2,  -1,
         <<87,101,97,112,111,110,32,79,114,110,97,109,101,110,116>>,   \* "Weapon Ornament"
         <<>>),
    [Item(12, N_HungJurys, 3, 9, <<>>, <<>>) EXCEPT !.typed = FALSE],
    Item(100, N_HungJury,       3,  9,  T_ScoutRifle, <<>>),
    Item(200, N_Trustee,        0,  -1, T_CombatBow,  <<>>),
    Item(21,  N_Outlaw,         14, -1, <<69,109,98,108,101,109>>, <<>>),    \* "Emblem"
    Item(1,   N_Outlaw,         19, -1, T_Trait,      <<>>),
    Item(3,   <<68,101,109,111,108,105,116,105,111,110,105,115,116,115>>,    \* "Demolitionists"
         19, -1, T_Trait, <<>>),
    Item(2,   N_Demolitionist,  19, -1, T_Trait,      <<>>),
    Item(30,  N_Rampage,        19, -1,
         <<65,114,109,111,114,32,77,111,100>>, <<>>),                       \* "Armor Mod"
    Item(13,  N_Rampage,        19, -1,
         <<87,101,97,112,111,110,32,77,111,100>>,                           \* "Weapon Mod"
         <<98,111,110,117,115,32,100,97,109,97,103,101>>),                  \* "bonus damage"
    [Item(99, N_Zzz, 3, 9, T_ScoutRifle, <<>>) EXCEPT !.display = FALSE],
    Item(5,   N_RapidHit,       19, -1, T_Trait,      <<>>)
>>

\* the loop of search_destiny_items over the items of cache['manifest']
search_destiny_items(items, search_term) ==
    LET hit(item) == item.display /\ Contains(lower(item.name), lower(search_term))
    IN  SelectSeq(items, hit)

base_type_names == <<
    <<97,117,116,111,32,114,105,102,108,101>>,                \* 6: "Auto Rifle"
    <<104,97,110,100,32,99,97,110,110,111,110>>,              \* 7: "Hand Cannon"
    <<112,117,108,115,101,32,114,105,102,108,101>>,           \* 8: "Pulse Rifle"
    <<115,99,111,117,116,32,114,105,102,108,101>>,            \* 9: "Scout Rifle"
    <<102,117,115,105,111,110,32,114,105,102,108,101>>,       \* 10: "Fusion Rifle"
    <<115,110,105,112,101,114,32,114,105,102,108,101>>,       \* 11: "Sniper Rifle"
    <<115,104,111,116,103,117,110>>,                          \* 12: "Shotgun"
    <<109,97,99,104,105,110,101,32,103,117,110>>,             \* 13: "Machine Gun"
    <<114,111,99,107,101,116,32,108,97,117,110,99,104,101,114>>, \* 14: "Rocket Launcher"
    <<115,117,98,109,97,99,104,105,110,101,32,103,117,110>>,  \* 17: "Submachine Gun"
    <<108,105,110,101,97,114,32,102,117,115,105,111,110,32,114,105,102,108,101>>,
                                                              \* 18: "Linear Fusion Rifle"
    <<103,114,101,110,97,100,101,32,108,97,117,110,99,104,101,114>>,
                                                              \* 19: "Grenade Launcher"
    <<116,114,97,99,101,32,114,105,102,108,101>>,             \* 20: "Trace Rifle"
    <<98,111,119>>,                                           \* 21: "Bow"
    <<103,108,97,105,118,101>>,                               \* 22: "Glaive"
    <<115,119,111,114,100>>,                                  \* 23: "Sword"
    <<115,112,101,99,105,97,108,32,103,114,101,110,97,100,101,32,108,97,117,
      110,99,104,101,114>>,                                   \* 24: "Special Grenade Launcher"
    <<104,101,97,118,121,32,103,114,101,110,97,100,101,32,108,97,117,110,99,
      104,101,114>>                                           \* 25: "Heavy Grenade Launcher"
>>

\* the keys of weapon_subtypes
weapon_subtypes == (6..14) \cup (17..55)

\* weapon_type_names: the lower-cased values of weapon_subtypes; codes 26..40
\* and 41..55 repeat "Auto Rifle" .. "Glaive" with the prefix Stasis / Strand
weapon_type_names ==
    Range(base_type_names)
    \cup {<<115,116,97,115,105,115,32>> \o base_type_names[i] : i \in 1..15}    \* 'stasis '
    \cup {<<115,116,114,97,110,100,32>> \o base_type_names[i] : i \in 1..15}    \* 'strand ' 

weapon_keywords == {
    <<114,105,102,108,101>>,                 \* 'rifle'
    <<99,97,110,110,111,110>>,               \* 'cannon'
    <<108,97,117,110,99,104,101,114>>,       \* 'launcher'
    <<115,119,111,114,100>>,                 \* 'sword'
    <<115,104,111,116,103,117,110>>,         \* 'shotgun'
    <<98,111,119>>,                          \* 'bow'
    <<103,108,97,105,118,101>>,              \* 'glaive'
    <<115,109,103>>                          \* 'smg'
}

\* variant: the subtype table is consulted whatever the item type
is_weapon_ungated(item) ==
    LET display_name == lower(get_itemTypeDisplayName(item, <<>>))
    IN  \/ item.itemSubType \in weapon_subtypes
        \/ \E type_name \in weapon_type_names :
               Contains(display_name, type_name)
        \/ \E keyword \in weapon_keywords : Contains(display_name, keyword)

is_weapon(item) ==
    LET display_name == lower(get_itemTypeDisplayName(item, <<>>))
    IN  \/ /\ item.itemType = 3
           /\ \/ item.itemSubType \in weapon_subtypes
              \/ \E type_name \in weapon_type_names :
                     Contains(display_name, type_name)
        \/ \E keyword \in weapon_keywords : Contains(display_name, keyword)

perk_keywords == {
    <<119,101,97,112,111,110>>,                        \* 'weapon'
    <<114,111,117,110,100,115>>,                       \* 'rounds'
    <<109,97,103,97,122,105,110,101>>,                 \* 'magazine'
    <<114,101,108,111,97,100>>,                        \* 'reload'
    <<112,114,101,99,105,115,105,111,110>>,            \* 'precision'
    <<100,97,109,97,103,101>>,                         \* 'damage'
    <<102,105,110,97,108,32,98,108,111,119>>,          \* 'final blow'
    <<107,105,108,108,115>>,                           \* 'kills'
    <<100,101,102,101,97,116,105,110,103>>,            \* 'defeating'
    <<112,114,101,99,105,115,105,111,110,32,104,105,116,115>>, \* 'precision hits'
    <<98,117,114,115,116>>                             \* 'burst'
}

is_perk(item) ==
    \/ item.typed /\ item.itemTypeDisplayName = T_Trait
    \/ /\ item.itemType \in {19, 20}
       /\ \E keyword \in perk_keywords :
              Contains(lower(item.description), keyword)

----------------------------------------------------------------------------
(* match_items.py: candidate search *)

EmptyMap == [n \in {} |-> <<>>]

SearchEvent(cls, name, term) ==
    [op |-> "search", cls |-> cls, name |-> name, term |-> term]
StoreEvent(cls, name) ==
    [op |-> "store", cls |-> cls, name |-> name, term |-> <<>>]

(* The matcher state threaded through one match_weapon call:               *)
(*   q       number of catalog searches the call has issued so far         *)
(*   manifest  the items of cache['manifest']                              *)
(* and the fields of ItemMatcher.  While the manifest is empty every       *)
(* search first calls load_item_definitions, which returns without items   *)
(* when the download fails: the searches of the call numbered below loadAt *)
(* find the manifest still empty, the one numbered loadAt loads it; with   *)
(* loadAt = 0 no search of the call loads it.                              *)
(* load_item_definitions awaits the answers of the server, so a call that  *)
(* searches an empty manifest is suspended there:                          *)
(*   await      the search at whose await the call is looked at, 0 for a   *)
(*              call that is followed to its return                        *)
(*   suspended  the call has reached that await: nothing after it has run  *)
CallSearch(st, cls, name, term, loadAt) ==
    IF st.suspended THEN [val |-> <<>>, st |-> st]
    ELSE LET items == IF st.manifest = <<>> /\ loadAt > 0
                                             /\ st.q + 1 >= loadAt
                      THEN Manifest ELSE st.manifest
         IN  [val |-> search_destiny_items(items, term),
              st  |-> [st EXCEPT
                          !.q = @ + 1, !.manifest = items,
                          !.log = Append(@, SearchEvent(cls, name, term)),
                          !.suspended = st.manifest = <<>>
                                             /\ st.await = st.q + 1]]

\* variant: the results are not filtered by is_weapon
weapon_results_unfiltered(matches) == matches

\* [m for m in matches if self.api.is_weapon(m)]
weapon_results(matches) == SelectSeq(matches, is_weapon)

RECURSIVE SearchVariants(_, _, _, _, _)

\* all_matches.extend(weapon results of r), then the remaining variants
ExtendMatches(r, name, variants, all_matches, loadAt) ==
    SearchVariants(r.st, name, variants,
                   all_matches \o weapon_results(r.val), loadAt)

\* for variant in search_variants: search, filter, extend
SearchVariants(st, name, variants, all_matches, loadAt) ==
    IF variants = <<>> THEN [val |-> all_matches, st |-> st]
    ELSE ExtendMatches(CallSearch(st, "weapon", name, Head(variants), loadAt),
                       name, Tail(variants), all_matches, loadAt)

\* d[match['hash']] = match on a dict kept as the sequence of its values: a
\* new key is inserted last, the value of a key that is present is replaced
\* where the key stands
dict_put(d, match) ==
    IF \E i \in 1..Len(d) : d[i].hash = match.hash
    THEN [i \in 1..Len(d) |-> IF d[i].hash = match.hash THEN match ELSE d[i]]
    ELSE Append(d, match)

\* {match['hash']: match for match in all_matches}.values()
RECURSIVE unique_matches(_)
unique_matches(all_matches) ==
    IF all_matches = <<>> THEN <<>>
    ELSE dict_put(unique_matches(SubSeq(all_matches, 1, Len(all_matches) - 1)),
                  all_matches[Len(all_matches)])

weapon_threshold == <<8, 10>>     \* similarity > 0.8
perk_threshold == <<9, 10>>       \* similarity > 0.9

\* variant: a similarity equal to the threshold is kept
keep_scored_at_threshold(match, c, threshold) ==
    IF c.exact \/ c.num * threshold[2] >= threshold[1] * c.den
    THEN <<[match |-> match, exact |-> c.exact, num |-> c.num, den |-> c.den]>>
    ELSE <<>>

\* if exact_match or similarity > threshold: the tuple is appended
keep_scored(match, c, threshold) ==
    IF c.exact \/ c.num * threshold[2] > threshold[1] * c.den
    THEN <<[match |-> match, exact |-> c.exact, num |-> c.num, den |-> c.den]>>
    ELSE <<>>

\* the tuples (match, exact_match, similarity) that are kept
RECURSIVE scored_matches(_, _, _)
scored_matches(name, matches, threshold) ==
    IF matches = <<>> THEN <<>>
    ELSE keep_scored(Head(matches), compare_names(name, Head(matches).name),
                     threshold)
         \o scored_matches(name, Tail(matches), threshold)

\* (a.exact, a.similarity) > (b.exact, b.similarity)
KeyGreater(a, b) ==
    \/ a.exact /\ ~b.exact
    \/ a.exact = b.exact /\ a.num * b.den > b.num * a.den

\* list.sort(key=(exact, similarity), reverse=True): stable, descending
RECURSIVE InsertDesc(_, _)
InsertDesc(x, s) ==
    IF s = <<>> THEN <<x>>
    ELSE IF KeyGreater(x, Head(s)) THEN <<x>> \o s
    ELSE <<Head(s)>> \o InsertDesc(x, Tail(s))

\* variant: the scored matches are left in the order they were found
sort_scored_unsorted(s) == s

RECURSIVE sort_scored(_)
sort_scored(s) ==
    IF s = <<>> THEN <<>>
    ELSE InsertDesc(s[Len(s)], sort_scored(SubSeq(s, 1, Len(s) - 1)))

\* [m[0] for m in scored_matches]
matches_of(sc) == [i \in 1..Len(sc) |-> sc[i].match]

\* scoring, sorting and extraction shared by the two find_*_matches
ranked_matches(name, matches, threshold) ==
    matches_of(sort_scored(scored_matches(name, matches, threshold)))

\* vord: the permutation that list(set(variants)) applies
\* self.weapon_matches[weapon_name] = matches; return matches
store_weapon_matches(st, weapon_name, matches) ==
    [val |-> matches,
     st  |-> IF st.suspended THEN st
             ELSE [st EXCEPT
                      !.weapon_matches = (weapon_name :> matches) @@ @,
                      !.log = Append(@, StoreEvent("weapon", weapon_name))]]

\* find_weapon_matches after its searches: r holds all_matches
rank_weapon_matches(r, weapon_name) ==
    store_weapon_matches(
        r.st, weapon_name,
        ranked_matches(weapon_name, unique_matches(r.val), weapon_threshold))

\* variant: an empty cached list is computed again
find_weapon_matches_retry_empty(st, weapon_name, vord, loadAt) ==
    IF /\ weapon_name \in DOMAIN st.weapon_matches
       /\ st.weapon_matches[weapon_name] # <<>>
    THEN [val |-> st.weapon_matches[weapon_name], st |-> st]
    ELSE rank_weapon_matches(
             SearchVariants(
                 st, weapon_name,
                 list_set(Distinct(variants_list(weapon_name)), vord),
                 <<>>, loadAt),
             weapon_name)

find_weapon_matches(st, weapon_name, vord, loadAt) ==
    IF weapon_name \in DOMAIN st.weapon_matches
    THEN [val |-> st.weapon_matches[weapon_name], st |-> st]
    ELSE rank_weapon_matches(
             SearchVariants(
                 st, weapon_name,
                 list_set(Distinct(variants_list(weapon_name)), vord),
                 <<>>, loadAt),
             weapon_name)

\* self.perk_matches[perk_name] = matches; return matches
store_perk_matches(st, perk_name, matches) ==
    [val |-> matches,
     st  |-> IF st.suspended THEN st
             ELSE [st EXCEPT
                      !.perk_matches = (perk_name :> matches) @@ @,
                      !.log = Append(@, StoreEvent("perk", perk_name))]]

\* find_perk_matches after its search: r holds the search result
rank_perk_matches(r, perk_name) ==
    store_perk_matches(
        r.st, perk_name,
        ranked_matches(perk_name, SelectSeq(r.val, is_perk), perk_threshold))

find_perk_matches(st, perk_name, loadAt) ==
    IF perk_name \in DOMAIN st.perk_matches
    THEN [val |-> st.perk_matches[perk_name], st |-> st]
    ELSE rank_perk_matches(
             CallSearch(st, "perk", perk_name, perk_name, loadAt), perk_name)

----------------------------------------------------------------------------
(* match_items.py: match_weapon *)

\* self.missing_perks.add(perk) after the search of the debug output
perk_missing(st, perk) ==
    IF st.suspended THEN st ELSE [st EXCEPT !.missing_perks = @ \cup {perk}]

\* variant: the set is started again for the weapon
weapon_missing_reset(st, weapon_name) ==
    IF st.suspended THEN st ELSE [st EXCEPT !.missing_weapons = {weapon_name}]

\* self.missing_weapons.add(weapon.name) after the search of the debug output
weapon_missing(st, weapon_name) ==
    IF st.suspended THEN st
    ELSE [st EXCEPT !.missing_weapons = @ \cup {weapon_name}]

RECURSIVE match_perks(_, _, _, _, _)

\* the body of a perk loop for perks[1]: r is what find_perk_matches returned
match_perk(r, perks, column_perks, column, loadAt) ==
    IF r.val # <<>>
    THEN match_perks(r.st, Tail(perks),
             Append(column_perks,
                    [name |-> Head(perks), hash |-> r.val[1].hash,
                     description |-> r.val[1].description,
                     column |-> column]),
             column, loadAt)
    ELSE match_perks(
             perk_missing(
                 CallSearch(r.st, "perk", Head(perks), Head(perks), loadAt).st,
                 Head(perks)),
             Tail(perks), column_perks, column, loadAt)

\* one of the two perk loops of match_weapon
match_perks(st, perks, column_perks, column, loadAt) ==
    IF perks = <<>> THEN [val |-> column_perks, st |-> st]
    ELSE match_perk(find_perk_matches(st, Head(perks), loadAt),
                    perks, column_perks, column, loadAt)

\* variant: a perk without candidate aborts the weapon
matched_weapon_abort(weapon, best_match, column1_perks, c2) ==
    IF Len(column1_perks) + Len(c2.val) < Len(weapon.perks)
    THEN [val |-> None, st |-> c2.st]
    ELSE [val |-> <<[name |-> weapon.name,
                     hash |-> best_match.hash,
                     type |-> get_itemTypeDisplayName(         \* default 'Unknown'
                                  best_match, <<85,110,107,110,111,119,110>>),
                     tier |-> weapon.tier,
                     perks_column1 |-> column1_perks,
                     perks_column2 |-> c2.val]>>,
          st  |-> c2.st]

\* the dict match_weapon returns; c2 is the outcome of the second perk loop
matched_weapon(weapon, best_match, column1_perks, c2) ==
    [val |-> <<[name |-> weapon.name,
                hash |-> best_match.hash,
                type |-> get_itemTypeDisplayName(              \* default 'Unknown'
                             best_match, <<85,110,107,110,111,119,110>>),
                tier |-> weapon.tier,
                perks_column1 |-> column1_perks,
                perks_column2 |-> c2.val]>>,
     st  |-> c2.st]

\* variant: the second perk loop starts after the first ceil(len / 2) perks
match_column2_ceil(weapon, best_match, c1, loadAt) ==
    matched_weapon(
        weapon, best_match, c1.val,
        match_perks(c1.st,
                    SubSeq(weapon.perks, (Len(weapon.perks) + 1) \div 2 + 1,
                           Len(weapon.perks)),
                    <<>>, 2, loadAt))

\* the second perk loop; c1 is the outcome of the first
match_column2(weapon, best_match, c1, loadAt) ==
    matched_weapon(
        weapon, best_match, c1.val,
        match_perks(c1.st,
                    SubSeq(weapon.perks, Len(weapon.perks) \div 2 + 1,
                           Len(weapon.perks)),
                    <<>>, 2, loadAt))

\* match_weapon after find_weapon_matches returned r
match_found(r, weapon, loadAt) ==
    IF r.val = <<>>
    THEN [val |-> None,
          st  |-> weapon_missing(
                      CallSearch(r.st, "weapon", weapon.name, weapon.name,
                                 loadAt).st,
                      weapon.name)]
    ELSE match_column2(
             weapon, r.val[1],
             match_perks(r.st,
                         SubSeq(weapon.perks, 1, Len(weapon.perks) \div 2),
                         <<>>, 1, loadAt),
             loadAt)

\* Optional[Dict]: <<>> is None
match_weapon(st, weapon, vord, loadAt) ==
    match_found(find_weapon_matches(st, weapon.name, vord, loadAt),
                weapon, loadAt)

----------------------------------------------------------------------------
(* main.py: the sort of generate_wishlist *)

\* (a['type'], a['name']) < (b['type'], b['name'])
TypeNameLess(a, b) ==
    \/ LexLess(a.type, b.type)
    \/ a.type = b.type /\ LexLess(a.name, b.name)

RECURSIVE InsertByTypeName(_, _)
InsertByTypeName(x, s) ==
    IF s = <<>> THEN <<x>>
    ELSE IF TypeNameLess(x, Head(s)) THEN <<x>> \o s
    ELSE <<Head(s)>> \o InsertByTypeName(x, Tail(s))

\* all_matched_weapons.sort(key=lambda w: (w['type'], w['name'])): stable
RECURSIVE sort_weapons(_)
sort_weapons(ws) ==
    IF ws = <<>> THEN <<>>
    ELSE InsertByTypeName(ws[Len(ws)], sort_weapons(SubSeq(ws, 1, Len(ws) - 1)))

----------------------------------------------------------------------------
(* Inputs *)

Entry(n, t, ps) == [name |-> n, tier |-> t, perks |-> ps]

\* Raw entries as parse_tab returns them: a name, a tier, at least one perk.
EntryPool == {
    Entry(N_HungJury,     Tier_S, <<N_Outlaw, N_Demolitionist>>),
    Entry(N_Zzz,          Tier_S, <<N_Outlaw>>),
    Entry(N_Hung_Jury,    Tier_A, <<N_Outlaw, N_Rapid_Hit, N_Rampage>>),
    Entry(N_HungJurys,    Tier_S, <<N_Rapid_Hit>>),
    Entry(<<104,117,110,103,32,106,117,114,121,95,118,50>>,             \* "hung jury_v2"
          Tier_A, <<N_Demolitionist, N_Outlaw>>),
    Entry(N_Trustee,      Tier_B, <<N_Outlaw, N_Outlaw>>)
}

SeqsUpTo(S, n) == UNION {[1..k -> S] : k \in 0..n}

TierConfig(t, o) == [tier |-> t, perk_option |-> o]

\* Configurations get_config can return for the selections "S only" and
\* "S and A" (tiers in sorted order)
ConfigPool ==
    {<<TierConfig(Tier_S, o)>> : o \in PerkOption}
    \cup {<<TierConfig(Tier_A, o[1]), TierConfig(Tier_S, o[2])>> :
            o \in { <<BOTH_COLUMNS, ANY_PERKS>>, <<ANY_COLUMN, BOTH_COLUMNS>>,
                    <<ANY_PERKS, ANY_COLUMN>> }}

\* perk hashes of the manifest for the two columns: "13" sorts before "2",
\* "1" is a prefix of "13", and hash 1 can stand in both columns
N_Weapon == <<87,101,97,112,111,110>>        \* "Weapon"

MatchedPerk(h, col) ==
    [name |-> <<80>> \o IntToStr(h), hash |-> h, description |-> <<>>,
     column |-> col]

Column(hs, col) == [i \in 1..Len(hs) |-> MatchedPerk(hs[i], col)]

Matched(n, h, ty, t, c1, c2) ==
    [name |-> n, hash |-> h, type |-> ty, tier |-> t,
     perks_column1 |-> Column(c1, 1), perks_column2 |-> Column(c2, 2)]

\* one matched weapon of tier A with every content of the two columns
RichWeapons ==
    {Matched(N_Weapon, 100, T_ScoutRifle, Tier_A, c1, c2) :
        c1 \in SeqsUpTo({1, 2, 13}, MaxCol),
        c2 \in SeqsUpTo({1, 3, 13}, MaxCol)}

\* matched weapons for lists of several weapons: two names and types, the
\* three tiers, full and empty columns
SmallWeapons == {
    Matched(N_Weapon,  100, T_ScoutRifle, Tier_S, <<1>>, <<3>>),
    Matched(N_Weapon,  100, T_ScoutRifle, Tier_A, <<>>,  <<3>>),
    Matched(N_Weapon,  100, T_ScoutRifle, Tier_B, <<1>>, <<3>>),
    Matched(N_Trustee, 200, T_CombatBow,  Tier_S, <<1>>, <<>>),
    Matched(N_Trustee, 200, T_CombatBow,  Tier_A, <<1>>, <<3>>),
    Matched(N_Trustee, 200, T_CombatBow,  Tier_B, <<>>,  <<>>)
}

----------------------------------------------------------------------------
(* The run: main.py *)

\* state after WishlistBuilder.__init__ and parse_all_tabs
Init ==
    /\ entries \in SeqsUpTo(EntryPool, MaxEntries)
    /\ pc = IF entries = <<>> THEN "generate" ELSE "match"
    /\ idx = 1
    /\ configs = <<>>
    \* bungie_cache.json: absent, the downloaded manifest, or the one item a
    \* get_item_definition of an earlier process has left in it
    /\ manifest \in {<<>>, Manifest, <<Manifest[1]>>}
    /\ weapon_matches = EmptyMap
    /\ perk_matches = EmptyMap
    /\ missing_weapons = {}
    /\ missing_perks = {}
    /\ weapons = <<>>
    /\ result = None
    /\ log = <<>>
    /\ sorted_weapons = <<>>
    /\ rolls = <<>>
    /\ wishlist = <<>>
    /\ arg = None
    /\ ret = None
    /\ values = <<>>
    /\ tasks = <<>>
    /\ call = None
    /\ id_cache = [weapon_id |-> EmptyMap, perk_id |-> EmptyMap]

\* the ItemMatcher and the manifest cache when match_weapon is called
MatcherState ==
    [q |-> 0, manifest |-> manifest, id_cache |-> id_cache,
     await |-> 0, suspended |-> FALSE,
     weapon_matches |-> weapon_matches,
     perk_matches |-> perk_matches,
     missing_weapons |-> missing_weapons,
     missing_perks |-> missing_perks,
     log |-> log]

\* match_weapon returned r to the loop of process_weapons (main.py), which
\* appends the result and goes on to the next entry
Return(r) ==
    /\ result' = r.val
    /\ weapons' = IF r.val # None THEN Append(weapons, r.val[1]) ELSE weapons
    /\ manifest' = r.st.manifest
    /\ weapon_matches' = r.st.weapon_matches
    /\ perk_matches' = r.st.perk_matches
    /\ missing_weapons' = r.st.missing_weapons
    /\ missing_perks' = r.st.missing_perks
    /\ log' = r.st.log
    /\ idx' = idx + 1
    /\ pc' = IF idx + 1 > Len(entries) THEN "generate" ELSE "match"
    /\ call' = None

\* match_weapon has reached the await of load_item_definitions of its search
\* number awaited and is suspended there: r is the call up to that point
Suspend(st, vord, awaited, r) ==
    /\ manifest' = r.st.manifest
    /\ weapon_matches' = r.st.weapon_matches
    /\ perk_matches' = r.st.perk_matches
    /\ missing_weapons' = r.st.missing_weapons
    /\ missing_perks' = r.st.missing_perks
    /\ log' = r.st.log
    /\ pc' = "load"
    /\ call' = <<[st |-> st, vord |-> vord, awaited |-> awaited]>>
    /\ UNCHANGED <<result, weapons, idx>>

\* the searches a call makes when none of them gets the manifest loaded:
\* each of them awaits load_item_definitions
Awaits(st, weapon, vord) ==
    IF st.manifest # <<>> THEN 0 ELSE match_weapon(st, weapon, vord, 0).st.q

\* one iteration of the loop of process_weapons (main.py) on entries[idx],
\* up to the return of match_weapon or to its first search of an empty
\* manifest
MatchWeapon ==
    /\ pc = "match"
    /\ idx <= Len(entries)
    /\ \E vord \in Permutations(
                      1..Len(Distinct(variants_list(entries[idx].name)))) :
        IF Awaits(MatcherState, entries[idx], vord) > 0
        THEN Suspend(MatcherState, vord, 1,
                     match_weapon([MatcherState EXCEPT !.await = 1],
                                  entries[idx], vord, 0))
        ELSE Return(match_weapon(MatcherState, entries[idx], vord, 0))
    /\ UNCHANGED <<entries, configs, sorted_weapons, rolls, wishlist,
                   arg, ret, values, tasks, id_cache>>

\* load_item_definitions has returned to the search that awaited it, with
\* the manifest loaded or still empty: the call runs on to its return or to
\* its next search of an empty manifest
Resume(c, loaded) ==
    IF loaded
    THEN Return(match_weapon(c.st, entries[idx], c.vord, c.awaited))
    ELSE IF c.awaited < Awaits(c.st, entries[idx], c.vord)
    THEN Suspend(c.st, c.vord, c.awaited + 1,
                 match_weapon([c.st EXCEPT !.await = c.awaited + 1],
                              entries[idx], c.vord, 0))
    ELSE Return(match_weapon(c.st, entries[idx], c.vord, 0))

\* get_manifest_urls answers load_item_definitions: with the url the
\* download is awaited, without it load_item_definitions returns
LoadItemDefinitions ==
    /\ pc = "load"
    /\ \/ /\ pc' = "download"
          /\ UNCHANGED <<idx, manifest, weapon_matches, perk_matches,
                         missing_weapons, missing_perks, weapons, result,
                         log, call>>
       \/ Resume(call[1], FALSE)
    /\ UNCHANGED <<entries, configs, sorted_weapons, rolls, wishlist,
                   arg, ret, values, tasks, id_cache>>

\* download_manifest_component answers with the items or, on failure, with
\* {}, which load_item_definitions assigns to cache['manifest']
DownloadManifest ==
    /\ pc = "download"
    /\ \E loaded \in BOOLEAN : Resume(call[1], loaded)
    /\ UNCHANGED <<entries, configs, sorted_weapons, rolls, wishlist,
                   arg, ret, values, tasks, id_cache>>

\* WishlistBuilder.generate_wishlist: get_config, the sort by (type, name),
\* generate_dim_wishlist.  wishlist is the text that follows the header
\* comment block; Len(sorted_weapons) is the count the header prints.
GenerateWishlist ==
    /\ pc = "generate"
    /\ \E cfgs \in ConfigPool, ord \in IterOrders :
        /\ configs' = cfgs
        /\ sorted_weapons' = sort_weapons(weapons)
        /\ rolls' = [i \in 1..Len(weapons) |->
                        _format_weapon_rolls(
                            process_matched_weapon(sorted_weapons'[i]),
                            cfgs, ord)]
        /\ wishlist' = generate_dim_wishlist(sorted_weapons', cfgs, ord)
    /\ pc' = "done"
    /\ UNCHANGED <<entries, idx, manifest, weapon_matches, perk_matches,
                   missing_weapons, missing_perks, weapons, result, log,
                   arg, ret, values, tasks, call,
                   id_cache>>

\* main of match_items.py after process_all_weapons, which runs the loop of
\* process_weapons: WishlistGenerator() has no configuration and the matched
\* weapons are handed to generate_dim_wishlist in the order they were matched
GenerateDefaultWishlist ==
    /\ pc = "generate"
    /\ \E ord \in IterOrders :
        /\ configs' = <<>>
        /\ sorted_weapons' = weapons
        /\ rolls' = [i \in 1..Len(weapons) |->
                        _format_weapon_rolls(
                            process_matched_weapon(weapons[i]), <<>>, ord)]
        /\ wishlist' = generate_dim_wishlist(weapons, <<>>, ord)
    /\ pc' = "done"
    /\ UNCHANGED <<entries, idx, manifest, weapon_matches, perk_matches,
                   missing_weapons, missing_perks, weapons, result, log,
                   arg, ret, values, tasks, call,
                   id_cache>>

Next ==
    \/ MatchWeapon
    \/ LoadItemDefinitions
    \/ DownloadManifest
    \/ GenerateWishlist
    \/ GenerateDefaultWishlist

Spec == Init /\ [][Next]_vars

\* generate_dim_wishlist as a function of its inputs: the matched weapons
\* are drawn from bounded sets instead of being produced by a matching run
InitGen ==
    /\ weapons \in {<<w>> : w \in RichWeapons}
                   \cup SeqsUpTo(SmallWeapons, MaxWeapons)
    /\ pc = "generate"
    /\ entries = <<>>
    /\ idx = 1
    /\ configs = <<>>
    /\ manifest = Manifest
    /\ weapon_matches = EmptyMap
    /\ perk_matches = EmptyMap
    /\ missing_weapons = {}
    /\ missing_perks = {}
    /\ result = None
    /\ log = <<>>
    /\ sorted_weapons = <<>>
    /\ rolls = <<>>
    /\ wishlist = <<>>
    /\ arg = None
    /\ ret = None
    /\ values = <<>>
    /\ tasks = <<>>
    /\ call = None
    /\ id_cache = [weapon_id |-> EmptyMap, perk_id |-> EmptyMap]

NextGen == GenerateWishlist

SpecGen == InitGen /\ [][NextGen]_vars

----------------------------------------------------------------------------
(* Properties of the roll expansion and of the emitted wishlist *)

PolicyTiers == {configs[i].tier : i \in 1..Len(configs)}

\* the option the policy gives a tier that it covers
PolicyOption(t) == (CHOOSE c \in Range(configs) : c.tier = t).perk_option

Hashes(col) == {col[i].hash : i \in 1..Len(col)}

\* the lines of the entry of the i-th sorted weapon that follow its header
RollLinesOf(i) == IF rolls[i] = None THEN {} ELSE Range(Tail(rolls[i]))

\* the reference set of roll lines of a weapon under an option
RefLines(w, opt) ==
    LET h1 == Hashes(w.perks_column1)
        h2 == Hashes(w.perks_column2)
    IN  (IF opt = ANY_PERKS THEN {BareLine(w)} ELSE {})
        \cup (IF opt \in {ANY_COLUMN, ANY_PERKS}
              THEN {SingleLine(w, [hash |-> h]) : h \in h1 \cup h2} ELSE {})
        \cup (IF h1 # {} /\ h2 # {}
              THEN {PairLine(w, [hash |-> a], [hash |-> b]) : a \in h1, b \in h2}
              ELSE {})

\* C1: for every weapon whose tier the policy covers, the roll lines emitted
\* after the header are exactly the reference set: the bare line iff the
\* option is ANY_PERKS, the single-perk lines of both columns iff the option
\* is ANY_COLUMN or ANY_PERKS, and the two-perk lines of column1 x column2
\* iff both columns are non-empty.
C1_RollLinesAreReference ==
    pc = "done" =>
        \A i \in 1..Len(sorted_weapons) :
            sorted_weapons[i].tier \in PolicyTiers =>
                RollLinesOf(i) = RefLines(sorted_weapons[i],
                                          PolicyOption(sorted_weapons[i].tier))

\* weapon 100 with column hashes {1,2} and {3} under ANY_COLUMN: five lines
C1_Witness ==
    /\ pc = "done"
    /\ Len(sorted_weapons) = 1
    /\ sorted_weapons[1].hash = 100
    /\ [i \in 1..Len(sorted_weapons[1].perks_column1) |->
           sorted_weapons[1].perks_column1[i].hash] = <<1, 2>>
    /\ [i \in 1..Len(sorted_weapons[1].perks_column2) |->
           sorted_weapons[1].perks_column2[i].hash] = <<3>>
    /\ sorted_weapons[1].tier \in PolicyTiers
    /\ PolicyOption(sorted_weapons[1].tier) = ANY_COLUMN
    /\ Cardinality(RollLinesOf(1)) = 5

\* C2: a weapon whose tier has no entry in the policy contributes no block:
\* its entry is None and no header with its name and tier is in the
\* wishlist, whether the entry matched or not; with an empty policy the
\* wishlist is empty.
C2_UnknownTierExcluded ==
    pc = "done" =>
        /\ \A i \in 1..Len(sorted_weapons) :
               sorted_weapons[i].tier \notin PolicyTiers => rolls[i] = None
        /\ \A i \in 1..Len(entries) :
               entries[i].tier \notin PolicyTiers =>
                   HeaderLine(entries[i]) \notin Range(wishlist)
        /\ configs = <<>> => wishlist = <<>>

\* a matched weapon with perks in both columns whose tier the non-empty
\* policy does not cover
C2_Witness ==
    /\ pc = "done"
    /\ configs # <<>>
    /\ \E i \in 1..Len(sorted_weapons) :
           /\ sorted_weapons[i].tier \notin PolicyTiers
           /\ sorted_weapons[i].perks_column1 # <<>>
           /\ sorted_weapons[i].perks_column2 # <<>>

\* a line with exactly one comma: a two-perk line
IsTwoPerkLine(l) == Cardinality({k \in 1..Len(l) : l[k] = 44}) = 1

\* C3: under BOTH_COLUMNS a weapon with an empty column gives no output,
\* even when the other column holds perks, and a weapon with two non-empty
\* columns gives only two-perk lines.
C3_BothColumnsOnlyPairs ==
    pc = "done" =>
        \A i \in 1..Len(sorted_weapons) :
            LET w == sorted_weapons[i]
            IN  (w.tier \in PolicyTiers /\ PolicyOption(w.tier) = BOTH_COLUMNS) =>
                    IF w.perks_column1 = <<>> \/ w.perks_column2 = <<>>
                    THEN /\ rolls[i] = None
                         /\ Len(sorted_weapons) = 1 => wishlist = <<>>
                    ELSE /\ rolls[i] # None
                         /\ RollLinesOf(i) # {}
                         /\ \A l \in RollLinesOf(i) : IsTwoPerkLine(l)

\* BOTH_COLUMNS, perks in column 2 only: no output
C3_Witness ==
    /\ pc = "done"
    /\ Len(sorted_weapons) = 1
    /\ sorted_weapons[1].tier \in PolicyTiers
    /\ PolicyOption(sorted_weapons[1].tier) = BOTH_COLUMNS
    /\ sorted_weapons[1].perks_column1 = <<>>
    /\ Len(sorted_weapons[1].perks_column2) = 2
    /\ wishlist = <<>>

\* C4: the block of a weapon starts with the header '<name> - Tier: <tier>',
\* its roll lines are in strictly ascending lexicographic order (so none is
\* repeated, the bare line included), and every iteration order of the set
\* of combinations gives the same lines.
C4_SortedNoDuplicates ==
    pc = "done" =>
        \A i \in 1..Len(sorted_weapons) :
            /\ rolls[i] # None =>
                /\ rolls[i][1] = sorted_weapons[i].name \o S_tier
                                     \o sorted_weapons[i].tier
                /\ \A j \in 2..Len(rolls[i]) : \A k \in (j + 1)..Len(rolls[i]) :
                       LexLess(rolls[i][j], rolls[i][k])
            /\ \A ord \in IterOrders :
                   _format_weapon_rolls(process_matched_weapon(sorted_weapons[i]),
                                        configs, ord) = rolls[i]

\* ANY_PERKS, a hash twice in column 1 and a hash shared by the two columns
C4_Witness ==
    /\ pc = "done"
    /\ \E i \in 1..Len(sorted_weapons) :
        LET w == sorted_weapons[i]
        IN  /\ w.tier \in PolicyTiers
            /\ PolicyOption(w.tier) = ANY_PERKS
            /\ Len(w.perks_column1) = 2
            /\ w.perks_column1[1].hash = w.perks_column1[2].hash
            /\ Hashes(w.perks_column1) \cap Hashes(w.perks_column2) # {}
            /\ Len(rolls[i]) >= 4

IsDigits(s) == s # <<>> /\ \A i \in 1..Len(s) : s[i] \in 48..57

\* <perkHash> or <perkHash1>,<perkHash2>
IsPerkList(s) ==
    \/ IsDigits(s)
    \/ \E k \in 2..(Len(s) - 1) :
           /\ s[k] = 44
           /\ IsDigits(SubSeq(s, 1, k - 1))
           /\ IsDigits(SubSeq(s, k + 1, Len(s)))

\* l is <prefix><h>, <prefix><h>&perks=<p> or <prefix><h>&perks=<p1>,<p2>
HasRollForm(l, prefix, h) ==
    LET start == prefix \o IntToStr(h)
        n == Len(start)
    IN  /\ Len(l) >= n
        /\ SubSeq(l, 1, n) = start
        /\ \/ Len(l) = n
           \/ /\ Len(l) > n + Len(S_perks)
              /\ SubSeq(l, n + 1, n + Len(S_perks)) = S_perks
              /\ IsPerkList(SubSeq(l, n + Len(S_perks) + 1, Len(l)))

IsHeader(l) == Contains(l, S_tier)

\* consecutive blocks are separated by exactly one blank line: a blank line
\* stands between a roll line and a header, every header but the first
\* follows a blank line, and there is one header per entry that is not None
BlocksSeparated ==
    /\ \A i \in 1..Len(wishlist) :
           wishlist[i] = <<>> =>
               /\ 1 < i /\ i < Len(wishlist)
               /\ wishlist[i - 1] # <<>> /\ ~IsHeader(wishlist[i - 1])
               /\ IsHeader(wishlist[i + 1])
    /\ \A i \in 2..Len(wishlist) :
           IsHeader(wishlist[i]) => wishlist[i - 1] = <<>>
    /\ Cardinality({i \in 1..Len(wishlist) : IsHeader(wishlist[i])})
           = Cardinality({i \in 1..Len(rolls) : rolls[i] # None})
    /\ wishlist # <<>> => IsHeader(wishlist[1])

\* every roll line of every entry has one of the three forms after prefix
RollForms(prefix) ==
    \A i \in 1..Len(sorted_weapons) :
        \A l \in RollLinesOf(i) : HasRollForm(l, prefix, sorted_weapons[i].hash)

S_item == <<105,116,101,109,61>>       \* "item="

\* C5 as stated: every roll line is item=<weaponHash>,
\* item=<weaponHash>&perks=<perkHash> or
\* item=<weaponHash>&perks=<perkHash1>,<perkHash2> with nothing before
\* 'item=', and consecutive blocks are separated by exactly one blank line.
C5_Original_ItemForms ==
    pc = "done" => RollForms(S_item) /\ BlocksSeparated

\* C5 amended: every roll line is dimwishlist:item=<weaponHash>,
\* dimwishlist:item=<weaponHash>&perks=<perkHash> or
\* dimwishlist:item=<weaponHash>&perks=<perkHash1>,<perkHash2>, and
\* consecutive blocks are separated by exactly one blank line.
C5_DimwishlistForms ==
    pc = "done" => RollForms(S_dimwishlist_item) /\ BlocksSeparated

\* two blocks, one with a bare line and one with a two-perk line
C5_Witness ==
    /\ pc = "done"
    /\ \E i \in 1..Len(wishlist) : wishlist[i] = <<>>
    /\ \E i \in 1..Len(rolls) : \E l \in RollLinesOf(i) : IsTwoPerkLine(l)
    /\ \E i \in 1..Len(rolls) : \E l \in RollLinesOf(i) : ~Contains(l, S_perks)

----------------------------------------------------------------------------
(* Properties of the matching run *)

\* C6 as stated: once the candidates of a raw name of a class are stored, no
\* later step searches the catalog for that raw name of that class, also
\* when the stored list is empty.
C6_NoSearchAfterStore ==
    \A i \in 1..Len(log) : \A j \in (i + 1)..Len(log) :
        (log[i].op = "store" /\ log[j].op = "search") =>
            ~(log[j].cls = log[i].cls /\ log[j].name = log[i].name)

IsExact(name, item) == normalize_name(name) = normalize_name(item.name)

\* similarity of a non-exact candidate, as <<numerator, denominator>>
Similarity(name, item) ==
    LET a == normalize_name(name)
        b == normalize_name(item.name)
    IN  IF Contains(a, b) THEN <<Len(b), Len(a)>>
        ELSE IF Contains(b, a) THEN <<Len(a), Len(b)>>
        ELSE <<0, 1>>

\* exact candidates first, then non-exact ones by non-increasing similarity
Ranked(name, list) ==
    \A i \in 1..Len(list) : \A j \in (i + 1)..Len(list) :
        /\ IsExact(name, list[j]) => IsExact(name, list[i])
        /\ (~IsExact(name, list[i]) /\ ~IsExact(name, list[j])) =>
               Similarity(name, list[i])[1] * Similarity(name, list[j])[2]
                   >= Similarity(name, list[j])[1] * Similarity(name, list[i])[2]

\* the chosen hash is the hash of an exact candidate when there is one
ChosenExact(name, list, h) ==
    (\E i \in 1..Len(list) : IsExact(name, list[i])) =>
        \E i \in 1..Len(list) : IsExact(name, list[i]) /\ list[i].hash = h

\* C7: in every list find_weapon_matches and find_perk_matches returned
\* (the stored lists), exact matches precede non-exact candidates and the
\* non-exact candidates are in non-increasing similarity; the weapon and the
\* perks match_weapon chose are exact matches whenever one was retained.
C7_ExactFirst ==
    /\ \A n \in DOMAIN weapon_matches : Ranked(n, weapon_matches[n])
    /\ \A n \in DOMAIN perk_matches : Ranked(n, perk_matches[n])
    /\ \A i \in 1..Len(weapons) :
        /\ ChosenExact(weapons[i].name, weapon_matches[weapons[i].name],
                       weapons[i].hash)
        /\ \A col \in {weapons[i].perks_column1, weapons[i].perks_column2} :
               \A k \in 1..Len(col) :
                   ChosenExact(col[k].name, perk_matches[col[k].name], col[k].hash)

HashesOf(list) == [i \in 1..Len(list) |-> list[i].hash]

\* "Hung Jury": the manifest lists the candidates 7, 12, 100 with the exact
\* match last; "Demolitionist": the non-exact candidate 3 comes before 2
C7_Witness ==
    /\ N_HungJury \in DOMAIN weapon_matches
    /\ HashesOf(weapon_matches[N_HungJury]) = <<100, 12, 7>>
    /\ N_Demolitionist \in DOMAIN perk_matches
    /\ HashesOf(perk_matches[N_Demolitionist]) = <<2, 3>>
    /\ \E i \in 1..Len(weapons) : weapons[i].hash = 100

Names(col) == [i \in 1..Len(col) |-> col[i].name]

\* C8: the last match_weapon call returned a weapon iff the weapon name has
\* a candidate; then the two columns together hold, in order, the perks of
\* the entry that have a candidate, each with the hash of its first
\* candidate, and the perks without candidate are in missing_perks;
\* otherwise it returned None.  A name is in missing_weapons exactly when it
\* is the name of a processed entry without candidate.
C8_WeaponMatchedDespitePerks ==
    idx > 1 =>
        LET e == entries[idx - 1]
            HasPerk(p) == perk_matches[p] # <<>>
        IN  /\ e.name \in DOMAIN weapon_matches
            /\ (result # None) <=> (weapon_matches[e.name] # <<>>)
            /\ result # None =>
                /\ result[1].name = e.name
                /\ result[1].hash = weapon_matches[e.name][1].hash
                /\ weapons # <<>> /\ weapons[Len(weapons)] = result[1]
                /\ \A k \in 1..Len(e.perks) : e.perks[k] \in DOMAIN perk_matches
                /\ Names(result[1].perks_column1) \o Names(result[1].perks_column2)
                       = SelectSeq(e.perks, HasPerk)
                /\ \A col \in {result[1].perks_column1, result[1].perks_column2} :
                       \A k \in 1..Len(col) :
                           col[k].hash = perk_matches[col[k].name][1].hash
                /\ \A k \in 1..Len(e.perks) :
                       ~HasPerk(e.perks[k]) => e.perks[k] \in missing_perks
            /\ missing_weapons =
                   {entries[i].name : i \in {j \in 1..(idx - 1) :
                                        weapon_matches[entries[j].name] = <<>>}}

\* a weapon returned with two empty columns, its only perk being missing
C8_Witness ==
    /\ idx > 1
    /\ result # None
    /\ result[1].perks_column1 = <<>>
    /\ result[1].perks_column2 = <<>>
    /\ entries[idx - 1].perks[1] \in missing_perks

\* the matched weapon of the i-th entry: weapons holds the matched weapons
\* in the order of their entries
MatchedEntries == {i \in 1..Len(entries) : weapon_matches[entries[i].name] # <<>>}
WeaponOf(i) == weapons[Cardinality({j \in MatchedEntries : j <= i})]

BothColumns(i) ==
    /\ i \in MatchedEntries
    /\ WeaponOf(i).perks_column1 # <<>>
    /\ WeaponOf(i).perks_column2 # <<>>

\* the entry's weapon has an acceptable combination under the policy
Emits(i) ==
    /\ i \in MatchedEntries
    /\ entries[i].tier \in PolicyTiers
    /\ LET w == WeaponOf(i)
           opt == PolicyOption(entries[i].tier)
       IN  \/ opt = ANY_PERKS
           \/ opt = ANY_COLUMN /\ (w.perks_column1 # <<>> \/ w.perks_column2 # <<>>)
           \/ w.perks_column1 # <<>> /\ w.perks_column2 # <<>>

HeaderCount(h) == Cardinality({k \in 1..Len(wishlist) : wishlist[k] = h})

\* C9: at the end of a run, an entry without weapon candidate has no block
\* and its name is in missing_weapons; an entry whose weapon matched with
\* perks in both output columns and whose tier the policy covers has a
\* block, each header occurring once per entry that emits it; one unmatched
\* and one such matched entry give one block and one missing name.
C9_EndToEnd ==
    pc = "done" =>
        /\ \A i \in 1..Len(entries) :
            /\ i \notin MatchedEntries =>
                /\ entries[i].name \in missing_weapons
                /\ \A k \in 1..Len(wishlist) :
                       ~(Len(wishlist[k]) >= Len(entries[i].name \o S_tier)
                         /\ SubSeq(wishlist[k], 1, Len(entries[i].name \o S_tier))
                                = entries[i].name \o S_tier)
            /\ (BothColumns(i) /\ entries[i].tier \in PolicyTiers) =>
                /\ Emits(i)
                /\ HeaderCount(HeaderLine(entries[i])) =
                       Cardinality({j \in 1..Len(entries) :
                           Emits(j) /\ HeaderLine(entries[j]) = HeaderLine(entries[i])})
        /\ Cardinality({k \in 1..Len(wishlist) : IsHeader(wishlist[k])})
               = Cardinality({i \in 1..Len(entries) : Emits(i)})
        /\ missing_weapons =
               {entries[i].name : i \in (1..Len(entries)) \ MatchedEntries}

\* two entries: the first matches no weapon, the second matches with perks
\* on both columns; one block, one missing name
C9_Witness ==
    /\ pc = "done"
    /\ Len(entries) = 2
    /\ 1 \notin MatchedEntries
    /\ BothColumns(2)
    /\ entries[2].tier \in PolicyTiers
    /\ Cardinality({k \in 1..Len(wishlist) : IsHeader(wishlist[k])}) = 1
    /\ Cardinality(missing_weapons) = 1

\* the item the catalog holds under a hash, if any
ItemsByHash(h) == {Manifest[i] : i \in {k \in 1..Len(Manifest) : Manifest[k].hash = h}}

\* C10: in every state the hash of every matched weapon is the hash of a
\* catalog item that is_weapon accepts, and the hash of every perk of its
\* columns is the hash of a catalog item that is_perk accepts.
C10_HashesClassified ==
    \A w \in Range(weapons) \cup Range(result) :
        /\ \E item \in ItemsByHash(w.hash) : is_weapon(item)
        /\ \A col \in {w.perks_column1, w.perks_column2} :
               \A k \in 1..Len(col) :
                   \E item \in ItemsByHash(col[k].hash) : is_perk(item)

\* a weapon and a perk whose names are also names of items of another class
C10_Witness ==
    \E i \in 1..Len(weapons) :
        /\ weapons[i].name = N_HungJury
        /\ weapons[i].hash = 100
        /\ \E k \in 1..Len(weapons[i].perks_column1) :
               weapons[i].perks_column1[k].name = N_Outlaw
        /\ weapons[i].perks_column2 # <<>>

----------------------------------------------------------------------------
(* Functions called on their own: the argument is drawn from a bounded set, *)
(* one action per function applies it.  pc is "name" or "item" before the   *)
(* call and the name of the function after it.                              *)

MaxNameLen == 3      \* longest generated name

\* 'A', 'v', 'V', '0', '_', '-', '.', ' ' and tab
N_IKELOS == <<73,75,69,76,79,83,95,83,77,71,95,118,49,46,48,46,50>>    \* "IKELOS_SMG_v1.0.2"
N_IKELOS_SMG == <<73,75,69,76,79,83,95,83,77,71>>    \* "IKELOS_SMG"
N_ikelos_smg == <<105,107,101,108,111,115,32,115,109,103>>    \* "ikelos smg"
N_ikelos == <<105,107,101,108,111,115>>    \* "ikelos"
N_ikelos_normalized == <<105,107,101,108,111,115,32,115,109,103,32,118,49,32,48,32,50>>    \* "ikelos smg v1 0 2"
N_Hung_Jury_spaces == <<32,32,72,117,110,103,32,9,45,74,117,114,121,46,32>>    \* "  Hung \t-Jury. "

\* names handed to normalize_name and get_search_variants
NamePool ==
    SeqsUpTo({65, 118, 86, 48, 95, 45, 46, 32, 9}, MaxNameLen)
    \cup {N_IKELOS, N_Hung_Jury_spaces, N_HungJury_v2,
          <<70,111,111,95,86,50>>,                   \* "Foo_V2"
          <<65,46,48,46,49,95,118,50>>}             \* "A.0.1_v2"

T_Sidearm == <<83,105,100,101,97,114,109>>    \* "Sidearm"

\* catalog items handed to is_weapon: every combination of an item type, a
\* subtype (-1: the item has none) and a type display name, and the items
\* without type display name
ItemPool ==
    {[Item(1, N_Zzz, it, st, <<>>, <<>>) EXCEPT !.typed = FALSE] :
        it \in {0, 2, 3, 19}, st \in {-1, 0, 5, 6, 14, 15, 16, 17, 55, 56}}
    \cup
    {Item(1, N_Zzz, it, st, tdn, <<>>) :
        it \in {0, 2, 3, 19},
        st \in {-1, 0, 5, 6, 14, 15, 16, 17, 55, 56},
        tdn \in {<<>>, T_ScoutRifle, T_CombatBow, T_Trait, T_Sidearm,
                 <<77,97,99,104,105,110,101,32,71,117,110>>,   \* "Machine Gun"
                 <<83,77,71>>,                           \* "SMG"
                 <<83,84,82,65,78,68,32,66,79,87>>}}     \* "STRAND BOW"

\* no run of the builder is under way
NoRun ==
    /\ entries = <<>>
    /\ idx = 1
    /\ configs = <<>>
    /\ weapon_matches = EmptyMap
    /\ perk_matches = EmptyMap
    /\ missing_weapons = {}
    /\ missing_perks = {}
    /\ weapons = <<>>
    /\ result = None
    /\ log = <<>>
    /\ sorted_weapons = <<>>
    /\ rolls = <<>>
    /\ wishlist = <<>>
    /\ call = None
    /\ id_cache = [weapon_id |-> EmptyMap, perk_id |-> EmptyMap]

run_vars == <<entries, idx, configs, manifest, weapon_matches,
              perk_matches, missing_weapons, missing_perks, weapons, result,
              log, sorted_weapons, rolls, wishlist, call, id_cache>>

MaxPairLen == 2      \* longest generated name of a compared pair

\* pairs of names handed to compare_names: every pair of short names over
\* 'A', 'a', 'b', '_', and pairs of catalog names
NamePairPool ==
    (SeqsUpTo({65, 97, 98, 95}, MaxPairLen)
     \X SeqsUpTo({65, 97, 98, 95}, MaxPairLen))
    \cup {<<N_HungJury, N_HungJurys>>, <<N_Hung_Jury, N_HungJury>>,
          <<N_HungJuryX, N_HungJury>>, <<N_HungJury, N_Trustee>>,
          <<N_Hung_Jury_spaces, <<>>>>}

MaxCands == 2        \* longest list of candidates that is scored

\* what the scoring loops of find_weapon_matches and find_perk_matches are
\* handed: the class, the raw name, and the candidates in the order the
\* searches returned them.  The names are prefixes of "Abcdefghijk" of the
\* lengths 4, 5, 6, 9, 10 and 11, so that the similarities include 4/5,
\* 5/6, 9/10 and 10/11; two candidates differ in case only.
ScorePool ==
    LET abc == <<65,98,99,100,101,102,103,104,105,106,107>>
        cand(h, n) == Item(h, SubSeq(abc, 1, n), 3, 9, T_ScoutRifle, <<>>)
        cands == {cand(11, 4), cand(5, 5), cand(2, 6), cand(8, 9),
                  cand(4, 10), cand(6, 11),
                  Item(9, <<65,66,67,68,69>>, 3, 9, T_ScoutRifle, <<>>),
                  Item(1, N_Zzz, 3, 9, T_ScoutRifle, <<>>)}
    IN  {[cls |-> c, name |-> lower(SubSeq(abc, 1, n)), matches |-> m] :
            c \in {"weapon", "perk"}, n \in {4, 5, 9, 10},
            m \in {q \in SeqsUpTo(cands, MaxCands) :
                      \A i, j \in 1..Len(q) : q[i] = q[j] => i = j}}

InitCalls ==
    /\ \/ pc = "name" /\ arg \in NamePool
       \/ pc = "item" /\ arg \in ItemPool
       \/ pc = "names" /\ arg \in NamePairPool
       \/ pc = "matches" /\ arg \in ScorePool
    /\ ret = None
    /\ manifest = Manifest
    /\ values = <<>>
    /\ tasks = <<>>
    /\ NoRun

\* ItemMatcher.normalize_name(arg)
NormalizeName ==
    /\ pc = "name"
    /\ ret' = normalize_name(arg)
    /\ pc' = "normalize_name"
    /\ UNCHANGED <<arg, values, tasks, run_vars>>

\* ItemMatcher.get_search_variants(arg), as the set of the returned list
GetSearchVariants ==
    /\ pc = "name"
    /\ ret' = get_search_variants(arg)
    /\ pc' = "get_search_variants"
    /\ UNCHANGED <<arg, values, tasks, run_vars>>

\* BungieAPI.is_weapon(arg)
IsWeapon ==
    /\ pc = "item"
    /\ ret' = is_weapon(arg)
    /\ pc' = "is_weapon"
    /\ UNCHANGED <<arg, values, tasks, run_vars>>

\* ItemMatcher.compare_names(arg[1], arg[2]): the similarity is num / den
CompareNames ==
    /\ pc = "names"
    /\ ret' = compare_names(arg[1], arg[2])
    /\ pc' = "compare_names"
    /\ UNCHANGED <<arg, values, tasks, run_vars>>

\* the scoring loop, the sort and the extraction of find_weapon_matches
\* (threshold 0.8) or find_perk_matches (threshold 0.9) on arg.matches
ScoreMatches ==
    /\ pc = "matches"
    /\ ret' = ranked_matches(arg.name, arg.matches,
                             IF arg.cls = "weapon" THEN weapon_threshold
                                                   ELSE perk_threshold)
    /\ pc' = "ranked_matches"
    /\ UNCHANGED <<arg, values, tasks, run_vars>>

NextCalls ==
    \/ NormalizeName
    \/ GetSearchVariants
    \/ IsWeapon
    \/ CompareNames
    \/ ScoreMatches

SpecCalls == InitCalls /\ [][NextCalls]_vars

----------------------------------------------------------------------------
(* Properties of normalize_name *)

\* lower-casing and the replacement of '_', '-' and '.' by a space
MappedChar(c) ==
    IF c \in {95, 45, 46} THEN 32
    ELSE IF c \in 65..90 THEN c + 32
    ELSE c

\* the normal form the contract describes: of the mapped characters, every
\* non-whitespace character is kept, and of a run of whitespace one space
\* is kept when the run has a non-whitespace character before and after it
RefNormalize(s) ==
    LET m == [i \in 1..Len(s) |-> MappedChar(s[i])]
        Inner(i) == /\ \E j \in 1..(i - 1) : ~IsSpace(m[j])
                    /\ \E j \in (i + 1)..Len(m) : ~IsSpace(m[j])
        Keep(i) == \/ ~IsSpace(m[i])
                   \/ IsSpace(m[i]) /\ Inner(i) /\ ~IsSpace(m[i - 1])
        kept == SelectSeq([i \in 1..Len(m) |-> i], Keep)
    IN  [k \in 1..Len(kept) |-> IF IsSpace(m[kept[k]]) THEN 32 ELSE m[kept[k]]]

\* C11: normalize_name returns, for every name, the lower-cased name with
\* '_', '-' and '.' replaced by a space, every run of whitespace collapsed
\* to one space and both ends trimmed; the empty string gives the empty
\* string and "IKELOS_SMG_v1.0.2" gives "ikelos smg v1 0 2".
C11_NormalizeContract ==
    pc = "normalize_name" =>
        /\ ret = RefNormalize(arg)
        /\ arg = <<>> => ret = <<>>
        /\ arg = N_IKELOS => ret = N_ikelos_normalized

\* the call on "IKELOS_SMG_v1.0.2" has returned "ikelos smg v1 0 2"
C11_Witness ==
    /\ pc = "normalize_name"
    /\ arg = N_IKELOS
    /\ ret = N_ikelos_normalized

\* C12: normalize_name is idempotent: normalizing the returned string again
\* returns it unchanged.
C12_NormalizeIdempotent ==
    pc = "normalize_name" => normalize_name(ret) = ret

\* a name with upper case, replaced characters and a run of whitespace,
\* whose normal form differs from it and is not empty
C12_Witness ==
    /\ pc = "normalize_name"
    /\ arg = N_Hung_Jury_spaces
    /\ ret = lower(N_HungJury)
    /\ normalize_name(ret) = ret

----------------------------------------------------------------------------
(* Properties of get_search_variants *)

\* positions (characters before it) at which a version marker stands in the
\* name, compared case-insensitively
MarkerPositions(name) ==
    {k \in 0..Len(name) :
        \E i \in 1..Len(version_patterns) :
            /\ k + Len(version_patterns[i]) <= Len(name)
            /\ SubSeq(lower(name), k + 1, k + Len(version_patterns[i]))
                   = version_patterns[i]}

\* the prefix of the name before the marker that occurs earliest in it
PrefixBeforeFirstMarker(name) ==
    SubSeq(name, 1,
           CHOOSE k \in MarkerPositions(name) :
               \A j \in MarkerPositions(name) : k <= j)

\* the set of variants as stated
RefVariants(name) ==
    {name, RefNormalize(name)}
    \cup (IF MarkerPositions(name) # {}
          THEN {PrefixBeforeFirstMarker(name),
                RefNormalize(PrefixBeforeFirstMarker(name))}
          ELSE {})

\* C13 as stated: get_search_variants returns exactly the raw name, its
\* normalized form and, when the raw name contains a version marker in any
\* letter case, the prefix before the earliest marker and the normalized
\* form of that prefix.
C13_VariantsAsStated ==
    pc = "get_search_variants" => ret = RefVariants(arg)

\* C14 as stated: the variants of "IKELOS_SMG_v1.0.2" include "ikelos" as
\* the prefix before '_v', and the normalized form of that prefix.
C14_Original_IkelosPrefix ==
    (pc = "get_search_variants" /\ arg = N_IKELOS) =>
        /\ N_ikelos \in ret
        /\ normalize_name(N_ikelos) \in ret

\* C14 amended: the variants of "IKELOS_SMG_v1.0.2" include the prefix
\* before '_v', which is "IKELOS_SMG", and its normalized form "ikelos smg".
C14_IkelosPrefix ==
    (pc = "get_search_variants" /\ arg = N_IKELOS) =>
        /\ PrefixBeforeFirstMarker(arg) = N_IKELOS_SMG
        /\ N_IKELOS_SMG \in ret
        /\ N_ikelos_smg \in ret
        /\ normalize_name(N_IKELOS_SMG) = N_ikelos_smg

\* get_search_variants("IKELOS_SMG_v1.0.2") has returned its four variants
C14_Witness ==
    /\ pc = "get_search_variants"
    /\ arg = N_IKELOS
    /\ ret = {N_IKELOS, N_IKELOS_SMG, N_ikelos_normalized, N_ikelos_smg}

----------------------------------------------------------------------------
(* Properties of the candidate search *)

\* the catalog items of a class that the stated search returns as exact
\* matches of a raw name: displayed, of the class, holding a variant of the
\* name, and with the normalized name of the raw name
ExactItems(name, cls) ==
    {Manifest[i] : i \in
        {k \in 1..Len(Manifest) :
            /\ Manifest[k].display
            /\ IF cls = "weapon" THEN is_weapon(Manifest[k])
                                 ELSE is_perk(Manifest[k])
            /\ \E v \in get_search_variants(name) :
                   Contains(lower(Manifest[k].name), lower(v))
            /\ IsExact(name, Manifest[k])}}

\* every variant of a looked-up name was a search term of its class
VariantsSearched(name, cls) ==
    \A v \in get_search_variants(name) :
        \E k \in 1..Len(log) : log[k] = SearchEvent(cls, name, v)

NoDuplicateHash(list) ==
    \A i, j \in 1..Len(list) : list[i].hash = list[j].hash => i = j

\* C15 as stated: for weapons and for perks every search variant of the raw
\* name is queried, every exact match holding a variant is among the stored
\* candidates once the catalog is loaded (the first entry was matched, so
\* its perks were searched on a loaded manifest), 'Rapid-Hit' resolves to
\* 'Rapid Hit', and no candidate list holds a hash twice.
C15_EveryVariantSearched ==
    /\ \A n \in DOMAIN weapon_matches :
        /\ VariantsSearched(n, "weapon")
        /\ NoDuplicateHash(weapon_matches[n])
    /\ \A n \in DOMAIN perk_matches :
        /\ VariantsSearched(n, "perk")
        /\ NoDuplicateHash(perk_matches[n])
    /\ (idx = 2 /\ result # None) =>
        /\ ExactItems(entries[1].name, "weapon")
               \subseteq Range(weapon_matches[entries[1].name])
        /\ \A p \in Range(entries[1].perks) :
               ExactItems(p, "perk") \subseteq Range(perk_matches[p])

----------------------------------------------------------------------------
(* sheet_parser.py *)

\* str.strip()
Strip(s) ==
    IF \A i \in 1..Len(s) : IsSpace(s[i]) THEN <<>>
    ELSE SubSeq(s,
                CHOOSE i \in 1..Len(s) :
                    ~IsSpace(s[i]) /\ \A j \in 1..(i - 1) : IsSpace(s[j]),
                CHOOSE i \in 1..Len(s) :
                    ~IsSpace(s[i]) /\ \A j \in (i + 1)..Len(s) : IsSpace(s[j]))

\* s.split('\n'): cur is the piece being read, out the pieces so far
RECURSIVE SplitLines(_, _, _)
SplitLines(s, cur, out) ==
    IF s = <<>> THEN Append(out, cur)
    ELSE IF Head(s) = 10 THEN SplitLines(Tail(s), <<>>, Append(out, cur))
    ELSE SplitLines(Tail(s), Append(cur, Head(s)), out)

\* [perk.strip() for perk in pieces if perk.strip()]
RECURSIVE StripPieces(_)
StripPieces(pieces) ==
    IF pieces = <<>> THEN <<>>
    ELSE (IF Strip(Head(pieces)) # <<>> THEN <<Strip(Head(pieces))>> ELSE <<>>)
         \o StripPieces(Tail(pieces))

parse_perks(perk_string) ==
    IF perk_string = <<>> THEN <<>>
    ELSE StripPieces(SplitLines(perk_string, <<>>, <<>>))

\* find_column_indices for the headers Name, Column 1, Column 2, Tier
indices == [name |-> 0, column1 |-> 1, column2 |-> 2, tier |-> 3]

S_BRAVE_version == <<66,82,65,86,69,32,118,101,114,115,105,111,110>>    \* 'BRAVE version'

\* the two tests of parse_tab that skip a row on its name and tier cells
skip_row(name, tier) ==
    \/ name = <<>>
    \/ tier = <<>>
    \/ lower(name) \in {<<110,97,109,101>>,            \* 'name'
                       <<119,101,97,112,111,110>>}    \* 'weapon'
    \/ lower(tier) = <<116,105,101,114>>               \* 'tier'
    \/ lower(name) = <<105,100,101,97,108>>            \* 'ideal'
    \/ tier = <<47>>                                   \* '/'

\* name.split('\n')[0], then name.split('BRAVE version')[0].strip()
clean_name(name) ==
    Strip(SplitFirst(SplitFirst(name, <<10>>), S_BRAVE_version))

\* the perks of the two columns
row_perks(perk1, perk2) ==
    (IF perk1 # <<>> THEN parse_perks(perk1) ELSE <<>>)
    \o (IF perk2 # <<>> THEN parse_perks(perk2) ELSE <<>>)

\* the end of the loop body: skip entries without perks, else append
\* WeaponRoll(name=name.strip(), tier=tier.strip(), perks=perks)
append_roll(rolled, name, tier, perks) ==
    IF perks = <<>> THEN rolled
    ELSE Append(rolled, Entry(Strip(clean_name(name)), Strip(tier), perks))

\* the loop body of parse_tab on the four cells of a row
parse_cells(rolled, name, perk1, perk2, tier) ==
    IF skip_row(name, tier) THEN rolled
    ELSE append_roll(rolled, name, tier, row_perks(perk1, perk2))

\* one iteration of the loop of parse_tab
parse_row(rolled, row) ==
    IF Len(row) <= indices.tier THEN rolled
    ELSE parse_cells(rolled, row[indices.name + 1], row[indices.column1 + 1],
                     row[indices.column2 + 1], row[indices.tier + 1])

MaxRows == 1         \* most rows below the header row of a tab


\* rows of a tab below its header row: four cells, or a row cut short
RowPool ==
    LET S_Outlaw_Rampage ==                     \* "Outlaw\n Rampage \n"
            <<79,117,116,108,97,119,10,32,82,97,109,112,97,103,101,32,10>>
    IN
    {<<n, p1, p2, t>> :
        n \in {<<>>, N_HungJury, S_BRAVE_version,
               <<10,72,117,110,103,32,74,117,114,121>>,    \* "\nHung Jury"
               <<32,32>>,                                  \* "  "
               <<32,110,97,109,101>>,                        \* " name"
               <<73,100,101,97,108,10,50>>,                \* "Ideal\n2"
               <<78,97,109,101>>,                            \* "Name"
               <<72,117,110,103,32,74,117,114,121,32,66,82,65,86,69,32,118,
                 101,114,115,105,111,110,10,40,120,41>>},
                                       \* "Hung Jury BRAVE version\n(x)"
        p1 \in {<<>>, S_Outlaw_Rampage,
                <<10,32>>},                                 \* "\n "
        p2 \in {<<>>, N_RapidHit},
        t \in {<<>>, Tier_S,
               <<32,83>>,                                  \* " S"
               <<32>>,                                     \* " "
               <<84,105,101,114>>,                            \* "Tier"
               <<47>>}}                                    \* "/"
    \cup {<<N_HungJury, S_Outlaw_Rampage>>}

\* parse_tab at the head of its loop: values holds the rows values[2:],
\* entries the list weapons
InitParse ==
    /\ values \in SeqsUpTo(RowPool, MaxRows)
    /\ pc = IF values = <<>> THEN "parsed" ELSE "parse"
    /\ idx = 1
    /\ entries = <<>>
    /\ configs = <<>>
    /\ manifest = Manifest
    /\ weapon_matches = EmptyMap
    /\ perk_matches = EmptyMap
    /\ missing_weapons = {}
    /\ missing_perks = {}
    /\ weapons = <<>>
    /\ result = None
    /\ log = <<>>
    /\ sorted_weapons = <<>>
    /\ rolls = <<>>
    /\ wishlist = <<>>
    /\ arg = None
    /\ ret = None
    /\ tasks = <<>>
    /\ call = None
    /\ id_cache = [weapon_id |-> EmptyMap, perk_id |-> EmptyMap]

\* one iteration of the loop of parse_tab on values[idx]
ParseRow ==
    /\ pc = "parse"
    /\ idx <= Len(values)
    /\ entries' = parse_row(entries, values[idx])
    /\ idx' = idx + 1
    /\ pc' = IF idx + 1 > Len(values) THEN "parsed" ELSE "parse"
    /\ UNCHANGED <<values, configs, manifest, weapon_matches,
                   perk_matches, missing_weapons, missing_perks, weapons,
                   result, log, sorted_weapons, rolls, wishlist, arg, ret,
                   tasks, call, id_cache>>

NextParse == ParseRow

SpecParse == InitParse /\ [][NextParse]_vars

----------------------------------------------------------------------------
(* Properties of parse_tab *)

\* the placeholder tokens of a name and of a tier
PlaceholderNames == {<<110,97,109,101>>, <<119,101,97,112,111,110>>,
                     <<105,100,101,97,108>>}   \* 'name', 'weapon', 'ideal'
PlaceholderTiers == {<<116,105,101,114>>, <<47>>}    \* 'tier', '/'

\* C16 as stated: every entry parse_tab returns has a non-empty name, a
\* non-empty tier and a non-empty perk list, and neither its name nor its
\* tier is a placeholder token, for every input row.
C16_EntriesWellFormed ==
    \A i \in 1..Len(entries) :
        /\ entries[i].name # <<>>
        /\ entries[i].tier # <<>>
        /\ entries[i].perks # <<>>
        /\ lower(entries[i].name) \notin PlaceholderNames
        /\ lower(entries[i].tier) \notin PlaceholderTiers

----------------------------------------------------------------------------
(* Properties of a run *)

\* a catalog search was made
Searched == \E k \in 1..Len(log) : log[k].op = "search"

\* C17 as stated: a run whose catalog load failed (searches were made and
\* the manifest is still empty, so every load_item_definitions of the run
\* came back without items) never reaches the state where generate_wishlist
\* has saved the wishlist.
C17_NoWishlistAfterFailedLoad ==
    ~(pc = "done" /\ Searched /\ manifest = <<>>)

\* C18: the run-scoped results only grow.  No step removes a name from
\* missing_weapons or missing_perks, and no step removes or changes a
\* matched weapon already appended to the matcher's weapons, whatever the
\* outcome of the entry being processed.
C18_ResultsOnlyGrow ==
    [][/\ missing_weapons \subseteq missing_weapons'
       /\ missing_perks \subseteq missing_perks'
       /\ Len(weapons) <= Len(weapons')
       /\ SubSeq(weapons', 1, Len(weapons)) = weapons]_vars

\* the first entry was matched and lost a perk, the second entry failed
\* to match: all three results are kept
C18_Witness ==
    /\ idx = 3
    /\ result = None
    /\ Len(weapons) = 1
    /\ weapons[1].name = entries[1].name
    /\ entries[2].name \in missing_weapons
    /\ \E p \in Range(entries[1].perks) : p \in missing_perks

----------------------------------------------------------------------------
(* Properties of is_weapon *)

\* the type display name holds one of the eight keywords
HasKeyword(item) ==
    \E keyword \in weapon_keywords :
        Contains(lower(get_itemTypeDisplayName(item, <<>>)), keyword)

S_machine_gun == <<109,97,99,104,105,110,101,32,103,117,110>>   \* "machine gun"

\* C20 as stated: is_weapon is true exactly when the subtype code is in the
\* table (6-14, 17-55) or the type display name holds a keyword, whatever
\* the item type code.
C20_Original_SubtypeOrKeyword ==
    pc = "is_weapon" =>
        ret = (arg.itemSubType \in (6..14) \cup (17..55) \/ HasKeyword(arg))

\* C20 amended: is_weapon is true exactly when the type display name holds
\* a keyword, or the item type code is 3 and either the subtype code is in
\* the table or the display name holds a type name of the table (of which
\* only those with "machine gun" hold no keyword).
C20_SubtypeOnlyForType3 ==
    pc = "is_weapon" =>
        ret = \/ HasKeyword(arg)
              \/ /\ arg.itemType = 3
                 /\ \/ arg.itemSubType \in (6..14) \cup (17..55)
                    \/ Contains(lower(get_itemTypeDisplayName(arg, <<>>)), S_machine_gun)

\* is_weapon has refused an item of subtype 6 whose item type is not 3
C20_Witness ==
    /\ pc = "is_weapon"
    /\ arg.itemType = 0
    /\ arg.itemSubType = 6
    /\ arg.itemTypeDisplayName = T_Sidearm
    /\ ret = FALSE

----------------------------------------------------------------------------
(* Interleaved candidate lookups *)

(* find_weapon_matches and find_perk_matches are coroutines: a caller that  *)
(* starts several of them gets them interleaved where they are suspended,   *)
(* which is in load_item_definitions, called by a search that finds the     *)
(* manifest empty.  The other public coroutines of BungieAPI that change    *)
(* its cache may run beside them.  A task is one call:                      *)
(*   cls          "weapon"     find_weapon_matches(name)                    *)
(*                "perk"       find_perk_matches(name)                      *)
(*                "weapon_id"  find_weapon_id(name)                         *)
(*                "perk_id"    find_perk_id(name)                           *)
(*                "load"       load_item_definitions()                      *)
(*                "item"       get_item_definition(h), name being <<h>>     *)
(*   pos          "start"     not yet run                                   *)
(*                "load"      in load_item_definitions, awaiting the        *)
(*                            manifest urls                                 *)
(*                "download"  awaiting download_manifest_component          *)
(*                "request"   get_item_definition awaiting the item         *)
(*                "returned"  val holds the returned value, an Optional     *)
(*                            being <<>> or <<value>>                       *)
(*   variants     the search terms still to be searched, the first being    *)
(*                the term of the search that is under way                  *)
(*   all_matches  the results collected so far                              *)

Lookup(cls, name, vord) ==
    [cls |-> cls, name |-> name, vord |-> vord, pos |-> "start",
     variants |-> <<>>, all_matches |-> <<>>, val |-> None]

\* the (class, raw name) pairs looked up
LookupPool ==
    ({"weapon"} \X {N_HungJury, N_Hung_Jury})
    \cup ({"perk"} \X {N_Outlaw, N_Rapid_Hit})

\* the calls of the catalog client that may run beside the lookups
CallPool ==
    {Lookup("item", <<h>>, <<>>) : h \in {7, 21, 555}}
    \cup {Lookup("load", None, <<>>),
          Lookup("weapon_id", N_HungJury, <<>>),
          Lookup("perk_id", N_Outlaw, <<>>)}

\* what the item endpoint of the server knows: the items of the manifest
\* file and an item the file does not hold yet
item_definitions ==
    Manifest \o <<Item(555, N_HungJury, 3, 9, T_ScoutRifle, <<>>)>>

\* the cache of the class of a task
matches_cache(t) == IF t.cls = "weapon" THEN weapon_matches ELSE perk_matches

\* the search terms of a task: every variant for find_weapon_matches, the
\* raw name for the others
search_terms(t) ==
    IF t.cls = "weapon"
    THEN list_set(Distinct(variants_list(t.name)), t.vord)
    ELSE <<t.name>>

\* two lookups for the same raw name and class, with or without one more
\* call of the catalog client, the manifest cached or not
InitConc ==
    /\ pc = "lookups"
    /\ \E l \in LookupPool :
        \E vord \in IF l[1] = "weapon"
                    THEN Permutations(1..Len(Distinct(variants_list(l[2]))))
                    ELSE {<<>>} :
            \E c \in {<<>>} \cup {<<t>> : t \in CallPool} :
                tasks = <<Lookup(l[1], l[2], vord),
                          Lookup(l[1], l[2], vord)>> \o c
    /\ manifest \in {<<>>, Manifest}
    /\ arg = None
    /\ ret = None
    /\ values = <<>>
    /\ NoRun

\* the end of a call: r.val is returned, for a lookup the ranked list that
\* was stored in the cache
ReturnMatches(t, r) ==
    [t |-> [t EXCEPT !.pos = "returned", !.val = r.val], st |-> r.st]

\* all_matches.extend(...) with the results of the search of the first term
Extended(t, results) ==
    [t EXCEPT !.variants = Tail(@),
              !.all_matches = @ \o (IF t.cls = "weapon"
                                    THEN weapon_results(results)
                                    ELSE results)]

\* find_weapon_id / find_perk_id after the search: the hash of the first
\* result of the class whose name is the searched name, letter case apart,
\* is stored in the cache and returned
found_id(t, st) ==
    LET named(item) ==
            /\ IF t.cls = "weapon_id" THEN is_weapon(item) ELSE is_perk(item)
            /\ lower(item.name) = lower(t.name)
        hits == SelectSeq(t.all_matches, named)
    IN  IF hits = <<>> THEN [val |-> None, st |-> st]
        ELSE [val |-> <<hits[1].hash>>,
              st  |-> [st EXCEPT !.id_cache[t.cls] =
                                     (t.name :> hits[1].hash) @@ @]]

RECURSIVE Search(_, _)

\* after a search: the next search, or the end of the call
Collected(t, st) ==
    IF t.variants # <<>> THEN Search(t, st)
    ELSE ReturnMatches(t,
             CASE t.cls = "weapon" ->
                      rank_weapon_matches([val |-> t.all_matches, st |-> st],
                                          t.name)
               [] t.cls = "perk" ->
                      rank_perk_matches([val |-> t.all_matches, st |-> st],
                                        t.name)
               [] OTHER -> found_id(t, st))

\* load_item_definitions has returned: the loop of search_destiny_items
\* over the manifest as it is now and the code of the caller that follows
\* it; called directly, load_item_definitions returns None
Scan(t, st) ==
    IF t.cls = "load" THEN ReturnMatches(t, [val |-> None, st |-> st])
    ELSE Collected(Extended(t, search_destiny_items(st.manifest,
                                                    Head(t.variants))),
                   st)

\* search_destiny_items is entered for the first term of t.  With a manifest
\* it searches and the call goes on, without one it calls
\* load_item_definitions, where the task waits for the manifest urls
Search(t, st) ==
    LET searched == [st EXCEPT !.log = Append(@, SearchEvent(t.cls, t.name,
                                                             Head(t.variants)))]
    IN  IF st.manifest # <<>> THEN Scan(t, searched)
        ELSE [t |-> [t EXCEPT !.pos = "load"], st |-> searched]

\* task i has run up to o.t, its next await or its return, and has left the
\* matcher and the cache of the catalog client as o.st
Ran(i, o) ==
    /\ tasks' = [tasks EXCEPT ![i] = o.t]
    /\ manifest' = o.st.manifest
    /\ id_cache' = o.st.id_cache
    /\ weapon_matches' = o.st.weapon_matches
    /\ perk_matches' = o.st.perk_matches
    /\ log' = o.st.log
    /\ UNCHANGED <<pc, arg, ret, values, entries, idx, configs,
                   missing_weapons, missing_perks, weapons, result,
                   sorted_weapons, rolls, wishlist, call>>

\* a call from its start to its first await or its return: the first await
\* of load_item_definitions; the cache test of get_item_definition; the
\* cache test, the search terms and the searches of a lookup or an id search
StartLookup(i) ==
    /\ tasks[i].pos = "start"
    /\ Ran(i,
           CASE tasks[i].cls = "load" ->
                    [t |-> [tasks[i] EXCEPT !.pos = "load"], st |-> MatcherState]
             [] tasks[i].cls = "item" ->
                    IF \E k \in 1..Len(manifest) :
                           manifest[k].hash = tasks[i].name[1]
                    THEN ReturnMatches(
                             tasks[i],
                             [val |-> SelectSeq(manifest,
                                          LAMBDA item :
                                              item.hash = tasks[i].name[1]),
                              st  |-> MatcherState])
                    ELSE [t  |-> [tasks[i] EXCEPT !.pos = "request"],
                          st |-> MatcherState]
             [] tasks[i].cls \in {"weapon_id", "perk_id"}
                  /\ tasks[i].name \in DOMAIN id_cache[tasks[i].cls] ->
                    ReturnMatches(
                        tasks[i],
                        [val |-> <<id_cache[tasks[i].cls][tasks[i].name]>>,
                         st  |-> MatcherState])
             [] tasks[i].cls \in {"weapon", "perk"}
                  /\ tasks[i].name \in DOMAIN matches_cache(tasks[i]) ->
                    ReturnMatches(
                        tasks[i],
                        [val |-> matches_cache(tasks[i])[tasks[i].name],
                         st  |-> MatcherState])
             [] OTHER ->
                    Search([tasks[i] EXCEPT !.variants = search_terms(tasks[i])],
                           MatcherState))

\* get_manifest_urls answers: with the url the download is awaited; without
\* it load_item_definitions returns and the manifest is searched as it is
ManifestUrls(i) ==
    /\ tasks[i].pos = "load"
    /\ \/ /\ tasks' = [tasks EXCEPT ![i].pos = "download"]
          /\ UNCHANGED <<pc, arg, ret, values, run_vars>>
       \/ Ran(i, Scan(tasks[i], MatcherState))

\* download_manifest_component answers with the items or, on failure, with
\* {}: cache['manifest'] is assigned the answer and then searched
Download(i) ==
    /\ tasks[i].pos = "download"
    /\ \E ok \in BOOLEAN :
           Ran(i, Scan(tasks[i], [MatcherState EXCEPT
                                     !.manifest = IF ok THEN Manifest
                                                        ELSE <<>>]))

\* the item request of get_item_definition answers: the item is assigned to
\* its key of cache['manifest'] and returned, or the request has failed and
\* None is returned
ItemDefinition(i) ==
    /\ tasks[i].pos = "request"
    /\ \E answer \in {None} \cup
                     {<<item>> : item \in {d \in Range(item_definitions) :
                                              d.hash = tasks[i].name[1]}} :
           Ran(i, ReturnMatches(
                      tasks[i],
                      [val |-> answer,
                       st  |-> IF answer = None THEN MatcherState
                               ELSE [MatcherState EXCEPT
                                        !.manifest = dict_put(@, answer[1])]]))

NextConc ==
    \E i \in 1..Len(tasks) :
        StartLookup(i) \/ ManifestUrls(i) \/ Download(i) \/ ItemDefinition(i)

SpecConc == InitConc /\ [][NextConc]_vars

----------------------------------------------------------------------------
(* Properties of interleaved lookups *)

AllReturned == tasks # <<>> /\ \A i \in 1..Len(tasks) : tasks[i].pos = "returned"

\* C19 as stated: interleaved lookups of the same raw name and class all
\* return the same candidate list, and the cache entry of the name ends up
\* holding that list.
C19_InterleavedLookupsAgree ==
    AllReturned =>
        \A i \in {k \in 1..Len(tasks) : tasks[k].cls \in {"weapon", "perk"}} :
            /\ tasks[i].val = tasks[1].val
            /\ tasks[i].name \in DOMAIN matches_cache(tasks[i])
            /\ matches_cache(tasks[i])[tasks[i].name] = tasks[i].val

----------------------------------------------------------------------------
(* Properties of compare_names *)

\* a is a substring of b
IsSubstring(a, b) ==
    \E i \in 1..(Len(b) - Len(a) + 1) : \A k \in 1..Len(a) : b[i + k - 1] = a[k]

Shorter(a, b) == IF Len(a) <= Len(b) THEN Len(a) ELSE Len(b)
Longer(a, b) == IF Len(a) <= Len(b) THEN Len(b) ELSE Len(a)

\* the returned pair is (exact, s) with s = n / d as rationals
Returns(r, exact, n, d) ==
    r.exact = exact /\ r.den > 0 /\ r.num * d = n * r.den

\* compare_names on two names with the normalized forms n1 and n2
ComparesAs(r, n1, n2) ==
    /\ r.den > 0
    /\ 0 <= r.num /\ r.num <= r.den
    /\ (r.exact /\ r.num = r.den) <=> n1 = n2
    /\ n1 # n2 =>
        /\ r.num < r.den
        /\ IF IsSubstring(n1, n2) \/ IsSubstring(n2, n1)
           THEN Returns(r, FALSE, Shorter(n1, n2), Longer(n1, n2))
           ELSE Returns(r, FALSE, 0, 1)

\* C22: compare_names returns (true, 1) iff the normalized forms are equal;
\* otherwise exactMatch is false and the similarity is shorter length over
\* longer length when one normalized form is a substring of the other and 0
\* when neither is.  The similarity lies between 0 and 1, is below 1 for a
\* non-exact pair, and no division by zero occurs, also for empty forms.
C22_CompareNamesContract ==
    pc = "compare_names" =>
        ComparesAs(ret, normalize_name(arg[1]), normalize_name(arg[2]))

\* compare_names has compared a name whose normalized form is empty with a
\* name whose normalized form is not: similarity 0 / 1, nothing divided by 0
C22_Witness ==
    /\ pc = "compare_names"
    /\ normalize_name(arg[1]) = <<>>
    /\ arg[1] # <<>>
    /\ normalize_name(arg[2]) # <<>>
    /\ ret = [exact |-> FALSE, num |-> 0, den |-> Len(normalize_name(arg[2]))]

----------------------------------------------------------------------------
(* Properties of the scoring of candidates *)

\* the candidate is an exact match of the raw name, or its similarity
\* (shorter over longer length when one normalized form holds the other,
\* else 0) is strictly greater than tenths / 10
Retained(name, item, tenths) ==
    \/ normalize_name(name) = normalize_name(item.name)
    \/ /\ \/ IsSubstring(normalize_name(name), normalize_name(item.name))
          \/ IsSubstring(normalize_name(item.name), normalize_name(name))
       /\ Shorter(normalize_name(name), normalize_name(item.name)) * 10
              > tenths * Longer(normalize_name(name), normalize_name(item.name))

\* C21: a candidate is in the returned list iff it is an exact match or its
\* similarity is strictly greater than 0.8 (weapons) or 0.9 (perks); a
\* similarity equal to the threshold is rejected.
C21_StrictThresholds ==
    pc = "ranked_matches" =>
        \A i \in 1..Len(arg.matches) :
            arg.matches[i] \in Range(ret)
                <=> Retained(arg.name, arg.matches[i],
                             IF arg.cls = "weapon" THEN 8 ELSE 9)

\* a weapon candidate of length 5 for a raw name of length 4 (similarity
\* 0.8) or a perk candidate of length 10 for a raw name of length 9
\* (similarity 0.9) has been rejected, next to a candidate that was kept
C21_Witness ==
    /\ pc = "ranked_matches"
    /\ Len(ret) = 1
    /\ \E i \in 1..Len(arg.matches) :
        /\ arg.matches[i] \notin Range(ret)
        /\ Len(arg.name) = (IF arg.cls = "weapon" THEN 4 ELSE 9)
        /\ Len(arg.matches[i].name) = Len(arg.name) + 1
        /\ IsSubstring(arg.name, lower(arg.matches[i].name))

\* two candidates have the same (exactMatch, similarity) for the raw name
SameScore(a, b) == a.exact = b.exact /\ a.num * b.den = b.num * a.den

\* C23 as stated: among candidates with equal (exactMatch, similarity) the
\* returned list is ordered by catalog hash ascending.
C23_TiesByHashAscending ==
    pc = "ranked_matches" =>
        \A i, j \in 1..Len(ret) :
            (i < j /\ SameScore(compare_names(arg.name, ret[i].name),
                                compare_names(arg.name, ret[j].name)))
                => ret[i].hash < ret[j].hash

----------------------------------------------------------------------------
(* From the rows of a tab to the matched weapons *)

\* parse_tab on rows whose perk cells hold catalog perks: the columns have
\* 0 to 3 and 0 to 2 perks; one perk ('Rapid-Hit') has no candidate and
\* stands alone, first or last in its column
InitSheet ==
    /\ values \in SeqsUpTo(
           {<<N_HungJury, N_Zzz>>[n] : n \in 1..2}
           \X {<<>>,
               N_Outlaw,
               <<79,117,116,108,97,119,10,82,97,109,112,97,103,101>>,
                                       \* "Outlaw\nRampage"
               <<79,117,116,108,97,119,10,82,97,109,112,97,103,101,10,
                 68,101,109,111,108,105,116,105,111,110,105,115,116>>,
                                       \* "Outlaw\nRampage\nDemolitionist"
               <<82,97,112,105,100,45,72,105,116,10,79,117,116,108,97,119,
                 10,82,97,109,112,97,103,101>>,
                                       \* "Rapid-Hit\nOutlaw\nRampage"
               <<79,117,116,108,97,119,10,82,97,109,112,97,103,101,10,
                 82,97,112,105,100,45,72,105,116>>,
                                       \* "Outlaw\nRampage\nRapid-Hit"
               N_Rapid_Hit}
           \X {<<>>,
               N_RapidHit,
               <<68,101,109,111,108,105,116,105,111,110,105,115,116,10,
                 82,97,112,105,100,32,72,105,116>>,
                                       \* "Demolitionist\nRapid Hit"
               <<82,97,112,105,100,45,72,105,116,10,79,117,116,108,97,119>>}
                                       \* "Rapid-Hit\nOutlaw"
           \X {Tier_S, Tier_A},
           MaxRows)
    /\ pc = IF values = <<>> THEN "parsed" ELSE "parse"
    /\ idx = 1
    /\ entries = <<>>
    /\ configs = <<>>
    /\ manifest = Manifest
    /\ weapon_matches = EmptyMap
    /\ perk_matches = EmptyMap
    /\ missing_weapons = {}
    /\ missing_perks = {}
    /\ weapons = <<>>
    /\ result = None
    /\ log = <<>>
    /\ sorted_weapons = <<>>
    /\ rolls = <<>>
    /\ wishlist = <<>>
    /\ arg = None
    /\ ret = None
    /\ tasks = <<>>
    /\ call = None
    /\ id_cache = [weapon_id |-> EmptyMap, perk_id |-> EmptyMap]

\* process_weapons receives the parsed entries and starts its loop
ProcessWeapons ==
    /\ pc = "parsed"
    /\ idx' = 1
    /\ pc' = IF entries = <<>> THEN "generate" ELSE "match"
    /\ UNCHANGED <<entries, configs, manifest, weapon_matches,
                   perk_matches, missing_weapons, missing_perks, weapons,
                   result, log, sorted_weapons, rolls, wishlist, arg, ret,
                   values, tasks, call, id_cache>>

NextSheet == ParseRow \/ ProcessWeapons \/ MatchWeapon

SpecSheet == InitSheet /\ [][NextSheet]_vars

----------------------------------------------------------------------------
(* Properties of the column assignment *)

\* the row has given an entry
GivesEntry(row) == parse_row(<<>>, row) # <<>>

\* the perk has a candidate
Resolved(p) == p \in DOMAIN perk_matches /\ perk_matches[p] # <<>>

\* the perk at position k of P is in the output column col, which is
\* filled from the positions lo..hi of P: it is the entry of col that
\* stands where the resolved perks of lo..k end
LandsIn(col, P, lo, hi, k) ==
    /\ lo <= k
    /\ k <= hi
    /\ Len(SelectSeq(SubSeq(P, lo, k), Resolved)) \in 1..Len(col)
    /\ col[Len(SelectSeq(SubSeq(P, lo, k), Resolved))].name = P[k]
    /\ (k > lo =>
          Len(SelectSeq(SubSeq(P, lo, k - 1), Resolved))
              < Len(SelectSeq(SubSeq(P, lo, k), Resolved)))

\* the perk at position k of P is in output column 1 / 2 of the weapon w
InOutput1(w, P, k) == LandsIn(w.perks_column1, P, 1, Len(P) \div 2, k)
InOutput2(w, P, k) ==
    LandsIn(w.perks_column2, P, Len(P) \div 2 + 1, Len(P), k)

\* the columns of the matched weapon w follow the positions in P
ColumnsByPosition(w, P) ==
    /\ Names(w.perks_column1)
           = SelectSeq(SubSeq(P, 1, Len(P) \div 2), Resolved)
    /\ Names(w.perks_column2)
           = SelectSeq(SubSeq(P, Len(P) \div 2 + 1, Len(P)), Resolved)
    /\ \A k \in 1..Len(w.perks_column1) : w.perks_column1[k].column = 1
    /\ \A k \in 1..Len(w.perks_column2) : w.perks_column2[k].column = 2
    /\ Len(P) = 1 => w.perks_column1 = <<>>

\* where the perks of P are in the matched weapon w: a perk without candidate is in neither output column
\* and in missing_perks; a resolved perk is in output column 1 when its
\* position in P is within the first floor(len(P)/2) and in output column
\* 2 otherwise
PerksLandByPosition(w, P) ==
    \A k \in 1..Len(P) :
        /\ InOutput1(w, P, k) <=> (Resolved(P[k]) /\ k <= Len(P) \div 2)
        /\ InOutput2(w, P, k) <=> (Resolved(P[k]) /\ k > Len(P) \div 2)
        /\ ~Resolved(P[k]) => P[k] \in missing_perks

\* the entry that match_weapon has just matched, and the row it came from
JustMatched == pc \in {"match", "generate"} /\ idx > 1 /\ result # None
MatchedRow == SelectSeq(values, GivesEntry)[idx - 1]

\* C24 as stated: the columns follow the positions in P, a single perk
\* leaves column 1 empty, and a perk of the sheet's first column lands in
\* output column 2 whenever the sheet columns have unequal lengths (checked
\* on the rows whose first-column perks all have a candidate).
C24_Original_UnequalColumns ==
    JustMatched =>
        /\ ColumnsByPosition(result[1], entries[idx - 1].perks)
        /\ (/\ parse_perks(MatchedRow[2]) # <<>>
            /\ \A k \in 1..Len(parse_perks(MatchedRow[2])) :
                   Resolved(parse_perks(MatchedRow[2])[k])
            /\ Len(parse_perks(MatchedRow[2]))
                   # Len(parse_perks(MatchedRow[3])))
           => \E k \in 1..Len(parse_perks(MatchedRow[2])) :
                  InOutput2(result[1], entries[idx - 1].perks, k)

\* C24 amended: P is the first column's perks followed by the second's;
\* the resolved perks among the first floor(len(P)/2) names form output
\* column 1 and those among the rest output column 2, in the order of P; a
\* single perk leaves column 1 empty.  A perk of the sheet's first column
\* lands in output column 2 exactly when it has a candidate and its
\* position in P is beyond floor(len(P)/2), which only happens when the
\* first column holds more perks than the second; a perk of the second
\* column lands in output column 1 exactly when it has a candidate and its
\* position is within the first floor(len(P)/2), which only happens when
\* the second column is longer by two or more; a perk without candidate is
\* in no output column.
C24_ColumnsByPosition ==
    JustMatched =>
        /\ entries[idx - 1].perks
               = parse_perks(MatchedRow[2]) \o parse_perks(MatchedRow[3])
        /\ ColumnsByPosition(result[1], entries[idx - 1].perks)
        /\ PerksLandByPosition(result[1], entries[idx - 1].perks)
        /\ (\E k \in 1..Len(parse_perks(MatchedRow[2])) :
                InOutput2(result[1], entries[idx - 1].perks, k))
               => Len(parse_perks(MatchedRow[2]))
                      > Len(parse_perks(MatchedRow[3]))
        /\ (\E k \in (Len(parse_perks(MatchedRow[2])) + 1)
                         ..Len(entries[idx - 1].perks) :
                InOutput1(result[1], entries[idx - 1].perks, k))
               => Len(parse_perks(MatchedRow[3]))
                      >= Len(parse_perks(MatchedRow[2])) + 2

\* the row ['Hung Jury', 'Outlaw\nRampage\nRapid-Hit', '', tier] has been
\* matched: the first column is the longer one, 'Outlaw' is in output
\* column 1, 'Rampage' has landed in output column 2, and 'Rapid-Hit',
\* which has no candidate, is beyond the half and in no output column
C24_Witness ==
    /\ JustMatched
    /\ Len(parse_perks(MatchedRow[2])) = 3
    /\ parse_perks(MatchedRow[3]) = <<>>
    /\ Names(result[1].perks_column1) = <<N_Outlaw>>
    /\ Names(result[1].perks_column2) = <<N_Rampage>>
    /\ InOutput2(result[1], entries[idx - 1].perks, 2)
    /\ ~InOutput2(result[1], entries[idx - 1].perks, 3)
    /\ entries[idx - 1].perks[3] = N_Rapid_Hit
    /\ N_Rapid_Hit \in missing_perks

----------------------------------------------------------------------------
(* Properties of the missing-name sets *)

\* the raw names of the perks in the columns of a matched weapon
PerkNames(w) == Range(Names(w.perks_column1)) \cup Range(Names(w.perks_column2))

\* C25: in every reachable state no raw weapon name is both in
\* missing_weapons and the name of a matched weapon, and no raw perk name is
\* both in missing_perks and the name of a perk in a matched weapon's
\* column, also when a name occurs in several entries and when the searches
\* return nothing for the first part of the run only.
C25_MissingAndMatchedDisjoint ==
    \A i \in 1..Len(weapons) :
        /\ weapons[i].name \notin missing_weapons
        /\ PerkNames(weapons[i]) \cap missing_perks = {}

\* the same raw name in two entries: the first lookup ran on the empty
\* manifest, the manifest was loaded afterwards, and the second entry got
\* the cached empty list although the catalog holds an exact match
C25_Witness ==
    /\ idx = 3
    /\ entries[1].name = entries[2].name
    /\ manifest # <<>>
    /\ entries[1].name \in missing_weapons
    /\ weapon_matches[entries[1].name] = <<>>
    /\ ExactItems(entries[1].name, "weapon") # {}
    /\ weapons = <<>>

====
